---- MODULE Spec2Model ----
(***************************************************************************)
(* Batch asset-generation job runners of the first100-landing repository:  *)
(* the marketing-localization runner, the showcase-variant runner, the     *)
(* illustration generator and the word-translation script.                 *)
(*                                                                         *)
(* Strings the code transforms character by character (slugify,            *)
(* toLowerCase, startsWith, path.join) are sequences of one-character      *)
(* strings; strings the code only compares or copies are TLA+ strings.     *)
(***************************************************************************)
EXTENDS Integers, Sequences, FiniteSets, TLC

(***************************************************************************)
(* Bounds of the model.                                                    *)
(***************************************************************************)
\* longest user-supplied --categories / --pairs token
MaxLen == 1
\* longest user-supplied --categories / --pairs list
MaxUserList == 2
\* largest --max-jobs value tried with user-supplied lists
MaxJobsArg == 5
\* --max-jobs values tried beyond the size of the built-in cross product
MaxWrap == 1
\* longest catalog the executor is run on
MaxCatalog == 2
\* largest process id the operating system hands out
MaxPid == 2

(***************************************************************************)
(* Character-level string functions.                                       *)
(***************************************************************************)
UpperToLower ==
  [c \in {"A","B","C","D","E","F","G","H","I","J","K","L","M","N","O","P","Q",
          "R","S","T","U","V","W","X","Y","Z"} |->
     CASE c = "A" -> "a" [] c = "B" -> "b" [] c = "C" -> "c" [] c = "D" -> "d"
       [] c = "E" -> "e" [] c = "F" -> "f" [] c = "G" -> "g" [] c = "H" -> "h"
       [] c = "I" -> "i" [] c = "J" -> "j" [] c = "K" -> "k" [] c = "L" -> "l"
       [] c = "M" -> "m" [] c = "N" -> "n" [] c = "O" -> "o" [] c = "P" -> "p"
       [] c = "Q" -> "q" [] c = "R" -> "r" [] c = "S" -> "s" [] c = "T" -> "t"
       [] c = "U" -> "u" [] c = "V" -> "v" [] c = "W" -> "w" [] c = "X" -> "x"
       [] c = "Y" -> "y" [] c = "Z" -> "z"]

LowerAlnum ==
  {"a","b","c","d","e","f","g","h","i","j","k","l","m","n","o","p","q","r",
   "s","t","u","v","w","x","y","z","0","1","2","3","4","5","6","7","8","9"}

\* String.prototype.toLowerCase
toLowerCase(s) ==
  [i \in 1..Len(s) |-> IF s[i] \in DOMAIN UpperToLower THEN UpperToLower[s[i]] ELSE s[i]]

RECURSIVE trimStart(_)
trimStart(s) ==
  IF s # <<>> /\ Head(s) = " " THEN trimStart(Tail(s)) ELSE s

RECURSIVE trimEnd(_)
trimEnd(s) ==
  IF s # <<>> /\ s[Len(s)] = " " THEN trimEnd(SubSeq(s, 1, Len(s) - 1)) ELSE s

\* String.prototype.trim
trim(s) == trimEnd(trimStart(s))

\* String.prototype.startsWith
startsWith(s, prefix) ==
  Len(prefix) <= Len(s) /\ SubSeq(s, 1, Len(prefix)) = prefix

\* .replace(/&/g, 'and')
RECURSIVE replaceAmp(_)
replaceAmp(s) ==
  IF s = <<>> THEN <<>>
  ELSE IF Head(s) = "&" THEN <<"a", "n", "d">> \o replaceAmp(Tail(s))
  ELSE <<Head(s)>> \o replaceAmp(Tail(s))

\* .replace(/[^a-z0-9]+/g, '-'): every maximal run of other characters
\* becomes one dash
RECURSIVE replaceRuns(_, _)
replaceRuns(s, inRun) ==
  IF s = <<>> THEN <<>>
  ELSE IF Head(s) \in LowerAlnum THEN <<Head(s)>> \o replaceRuns(Tail(s), FALSE)
  ELSE IF inRun THEN replaceRuns(Tail(s), TRUE)
  ELSE <<"-">> \o replaceRuns(Tail(s), TRUE)

RECURSIVE stripLeadingDashes(_)
stripLeadingDashes(s) ==
  IF s # <<>> /\ Head(s) = "-" THEN stripLeadingDashes(Tail(s)) ELSE s

RECURSIVE stripTrailingDashes(_)
stripTrailingDashes(s) ==
  IF s # <<>> /\ s[Len(s)] = "-"
  THEN stripTrailingDashes(SubSeq(s, 1, Len(s) - 1)) ELSE s

\* .replace(/^-+|-+$/g, '')
stripDashes(s) == stripTrailingDashes(stripLeadingDashes(s))

slugify(value) ==
  stripDashes(replaceRuns(replaceAmp(trim(toLowerCase(value))), FALSE))

\* path.join of a directory and two segments; empty segments are dropped
pathJoin(dir, a, b) ==
  dir \o (IF a = <<>> THEN <<>> ELSE <<"/">> \o a)
      \o (IF b = <<>> THEN <<>> ELSE <<"/">> \o b)

Max(a, b) == IF a >= b THEN a ELSE b
Min(a, b) == IF a <= b THEN a ELSE b

(***************************************************************************)
(* Static data of the scripts.                                             *)
(***************************************************************************)
PNG == <<".", "p", "n", "g">>

\* showcase runner
OUTPUT_DIR_SHOWCASE == <<"p", "u", "b", "l", "i", "c", "/", "s", "h", "o", "w", "c", "a", "s", "e">>
URL_SHOWCASE == <<"/", "s", "h", "o", "w", "c", "a", "s", "e", "/">>

\* marketing runner
OUTPUT_DIR_MARKETING == <<"p", "u", "b", "l", "i", "c", "/", "m", "a", "r", "k", "e", "t", "i", "n", "g", "/", "l", "o", "c", "a", "l", "i", "z", "e", "d">>
URL_MARKETING == <<"/", "m", "a", "r", "k", "e", "t", "i", "n", "g", "/", "l", "o", "c", "a", "l", "i", "z", "e", "d", "/">>

\* illustration generator
DEFAULT_MODEL == <<"g", "p", "t", "-", "i", "m", "a", "g", "e", "-", "1", ".", "5">>
FALLBACK_MODEL == <<"g", "p", "t", "-", "i", "m", "a", "g", "e", "-", "1">>
GPT_IMAGE_1_5_PREFIX == <<"g", "p", "t", "-", "i", "m", "a", "g", "e", "-", "1", ".", "5", "-">>

CATEGORIES ==
  << <<"A", "n", "i", "m", "a", "l", "s">>,
     <<"C", "o", "l", "o", "r", "s">>,
     <<"B", "o", "d", "y", " ", "P", "a", "r", "t", "s">>,
     <<"F", "a", "m", "i", "l", "y">>,
     <<"F", "o", "o", "d", " ", "&", " ", "D", "r", "i", "n", "k">>,
     <<"N", "u", "m", "b", "e", "r", "s">>,
     <<"A", "c", "t", "i", "o", "n", "s">>,
     <<"N", "a", "t", "u", "r", "e">>,
     <<"F", "e", "e", "l", "i", "n", "g", "s">>,
     <<"C", "o", "r", "e", " ", "R", "e", "s", "p", "o", "n", "s", "e", "s">>,
     <<"H", "o", "m", "e", " ", "O", "b", "j", "e", "c", "t", "s">>,
     <<"D", "a", "i", "l", "y", " ", "W", "o", "r", "d", "s">> >>

DEFAULT_LANGUAGE_PAIRS ==
  << [source |-> <<"E", "n", "g", "l", "i", "s", "h">>, target |-> <<"S", "o", "m", "a", "l", "i">>],
     [source |-> <<"E", "n", "g", "l", "i", "s", "h">>, target |-> <<"S", "p", "a", "n", "i", "s", "h">>],
     [source |-> <<"E", "n", "g", "l", "i", "s", "h">>, target |-> <<"A", "r", "a", "b", "i", "c">>],
     [source |-> <<"E", "n", "g", "l", "i", "s", "h">>, target |-> <<"F", "r", "e", "n", "c", "h">>],
     [source |-> <<"E", "n", "g", "l", "i", "s", "h">>, target |-> <<"S", "w", "a", "h", "i", "l", "i">>],
     [source |-> <<"E", "n", "g", "l", "i", "s", "h">>, target |-> <<"A", "m", "h", "a", "r", "i", "c">>] >>

TEMPLATE_IMAGES ==
  << [id |-> <<"a", "p", "p", "m", "a", "r", "k", "e", "t", "i", "n", "g", "0", "1">>, sourcePath |-> 1],
     [id |-> <<"a", "p", "p", "m", "a", "r", "k", "e", "t", "i", "n", "g", "0", "2">>, sourcePath |-> 2],
     [id |-> <<"a", "p", "p", "m", "a", "r", "k", "e", "t", "i", "n", "g", "0", "3">>, sourcePath |-> 3],
     [id |-> <<"a", "p", "p", "m", "a", "r", "k", "e", "t", "i", "n", "g", "0", "4">>, sourcePath |-> 4],
     [id |-> <<"a", "p", "p", "m", "a", "r", "k", "e", "t", "i", "n", "g", "0", "5">>, sourcePath |-> 5],
     [id |-> <<"a", "p", "p", "m", "a", "r", "k", "e", "t", "i", "n", "g", "0", "6">>, sourcePath |-> 6] >>

DEFAULT_TARGET_LANGUAGES ==
  << [slug |-> <<"s", "o", "m", "a", "l", "i">>, name |-> <<"S", "o", "m", "a", "l", "i">>],
     [slug |-> <<"s", "p", "a", "n", "i", "s", "h">>, name |-> <<"S", "p", "a", "n", "i", "s", "h">>],
     [slug |-> <<"a", "r", "a", "b", "i", "c">>, name |-> <<"A", "r", "a", "b", "i", "c">>],
     [slug |-> <<"f", "r", "e", "n", "c", "h">>, name |-> <<"F", "r", "e", "n", "c", "h">>],
     [slug |-> <<"s", "w", "a", "h", "i", "l", "i">>, name |-> <<"S", "w", "a", "h", "i", "l", "i">>],
     [slug |-> <<"a", "m", "h", "a", "r", "i", "c">>, name |-> <<"A", "m", "h", "a", "r", "i", "c">>] >>

OBJECTS ==
  << [id |-> "cat", category |-> "animals"],
     [id |-> "dog", category |-> "animals"],
     [id |-> "bird", category |-> "animals"],
     [id |-> "fish", category |-> "animals"],
     [id |-> "butterfly", category |-> "animals"],
     [id |-> "elephant", category |-> "animals"],
     [id |-> "rabbit", category |-> "animals"],
     [id |-> "duck", category |-> "animals"],
     [id |-> "bear", category |-> "animals"],
     [id |-> "apple", category |-> "food"],
     [id |-> "banana", category |-> "food"],
     [id |-> "orange", category |-> "food"],
     [id |-> "strawberry", category |-> "food"],
     [id |-> "carrot", category |-> "food"],
     [id |-> "cookie", category |-> "food"],
     [id |-> "milk", category |-> "food"],
     [id |-> "bread", category |-> "food"],
     [id |-> "ball", category |-> "toys"],
     [id |-> "blocks", category |-> "toys"],
     [id |-> "teddy", category |-> "toys"],
     [id |-> "car", category |-> "toys"],
     [id |-> "star", category |-> "shapes"],
     [id |-> "heart", category |-> "shapes"],
     [id |-> "moon", category |-> "nature"],
     [id |-> "sun", category |-> "nature"],
     [id |-> "flower", category |-> "nature"],
     [id |-> "tree", category |-> "nature"],
     [id |-> "cloud", category |-> "nature"],
     [id |-> "rainbow", category |-> "nature"],
     [id |-> "one", category |-> "numbers"],
     [id |-> "two", category |-> "numbers"],
     [id |-> "three", category |-> "numbers"],
     [id |-> "four", category |-> "numbers"],
     [id |-> "five", category |-> "numbers"],
     [id |-> "six", category |-> "numbers"],
     [id |-> "seven", category |-> "numbers"],
     [id |-> "eight", category |-> "numbers"],
     [id |-> "happy", category |-> "feelings"],
     [id |-> "sad", category |-> "feelings"],
     [id |-> "excited", category |-> "feelings"],
     [id |-> "calm", category |-> "feelings"],
     [id |-> "love", category |-> "concepts"],
     [id |-> "friendship", category |-> "concepts"],
     [id |-> "kindness", category |-> "concepts"],
     [id |-> "sharing", category |-> "concepts"],
     [id |-> "clock", category |-> "objects"],
     [id |-> "key", category |-> "objects"],
     [id |-> "gift", category |-> "objects"],
     [id |-> "rocket", category |-> "transport"],
     [id |-> "bicycle", category |-> "transport"],
     [id |-> "train", category |-> "transport"],
     [id |-> "airplane", category |-> "transport"],
     [id |-> "boat", category |-> "transport"],
     [id |-> "backpack", category |-> "objects"],
     [id |-> "umbrella", category |-> "objects"],
     [id |-> "toothbrush", category |-> "objects"],
     [id |-> "spoon", category |-> "objects"],
     [id |-> "glasses", category |-> "objects"],
     [id |-> "puzzle", category |-> "toys"],
     [id |-> "drum", category |-> "toys"],
     [id |-> "kite", category |-> "toys"],
     [id |-> "telescope", category |-> "objects"],
     [id |-> "shoe", category |-> "clothing"],
     [id |-> "hat", category |-> "clothing"],
     [id |-> "cup", category |-> "household"],
     [id |-> "book", category |-> "household"],
     [id |-> "chair", category |-> "household"] >>

(***************************************************************************)
(* State.                                                                  *)
(***************************************************************************)
VARIABLES
  script,        \* the script being run
  options,       \* result of parseArgs
  env,           \* process environment and local files the run reads
  jobs,          \* catalog of the current run
  pc,            \* position of main()
  idx,           \* 1-based position of the job loop
  items,         \* manifest items held in memory
  failures,      \* failure counter of the run
  runLog,        \* illustration generator: record of the current run
  model,         \* illustration generator: model chosen by resolveImageModel
  disk,          \* output files that exist
  outputWrites,  \* output paths written during the current run
  manifestFile,  \* persisted manifest: [exists, items]
  logFile,       \* persisted run log: [exists, runs]
  words,         \* word-translation script: translations held in memory
  translationsFile, \* persisted word translations
  fileWrites,    \* writes of the manifest, log and translations file in this run
  apiCalls,      \* generation API calls issued during the current run
  jobCalls,      \* generation API calls issued for the current job
  fallbackUsed,  \* the current job has issued its fallback call
  lastError,     \* outcome of the failed primary call of the current job
  listCalls,     \* models.list calls issued during the current run
  jobState,      \* terminal state of every job processed in the current run
  exitCode,      \* exit status of the current run, -1 while it runs
  runNo,         \* 1 for the first run, 2 for the re-run
  inFlight,      \* generation API calls issued and not yet resolved
  response,      \* what the last resolved call of the current job came back with
  writeError,    \* the file whose write threw in the current job or at the end
  delays,        \* inter-job sleeps completed during the current run
  firstRun,      \* results of the first run, kept for comparison
  call,          \* prompt library and estimators: the call under study
  pidFile,       \* dev server: .codex/dev-server.pid, [exists, pid]
  metaFile,      \* dev server: .codex/dev-server.json, [exists, port]
  procs,         \* dev server: the operating system's process table
  cmd,           \* dev server: the dev-server.mjs commands in progress
  spawned,       \* dev server: pids returned by spawn, in order
  signals        \* dev server: signals delivered by sendSignal, in order

vars ==
  << script, options, env, jobs, pc, idx, items, failures, runLog, model,
     disk, outputWrites, manifestFile, logFile, words, translationsFile,
     fileWrites,
     apiCalls, jobCalls, fallbackUsed, lastError, listCalls, jobState,
     exitCode, runNo, firstRun, inFlight, response, writeError, delays,
     call, pidFile, metaFile, procs, cmd, spawned, signals >>

libVars == << call >>

serverVars == << pidFile, metaFile, procs, cmd, spawned, signals >>

(***************************************************************************)
(* Option values.  A list option that was not given is the empty list;     *)
(* --max-jobs is [kind, n] with kind "null" (not given), "NaN"             *)
(* (Number() of non-numeric text) or "num".                                *)
(***************************************************************************)
NoMaxJobs == [kind |-> "null", n |-> 0]
NaNJobs   == [kind |-> "NaN", n |-> 0]
NumJobs(n) == [kind |-> "num", n |-> n]

DefaultOptions ==
  [ dryRun |-> FALSE, skipExisting |-> TRUE, allowFallback |-> FALSE,
    maxJobs |-> NoMaxJobs, categories |-> <<>>, pairs |-> <<>>,
    templates |-> <<>>, languages |-> <<>>, only |-> <<>>, category |-> "",
    requestedModel |-> DEFAULT_MODEL, overwrite |-> FALSE,
    trLanguages |-> <<>>, trWords |-> <<>> ]

(***************************************************************************)
(* Showcase runner: catalog builder.                                       *)
(***************************************************************************)
\* variant: the pair is picked by index % pairs instead of
\* floor(index / categories) % pairs
ShowcaseJobPairByIndex(selectedCategories, selectedPairs, index) ==
  LET category == selectedCategories[(index % Len(selectedCategories)) + 1]
      pair == selectedPairs[(index % Len(selectedPairs)) + 1]
      pairSlug == slugify(pair.source) \o <<"-">> \o slugify(pair.target)
      categorySlug == slugify(category)
  IN [ category |-> category, categorySlug |-> categorySlug,
       pair |-> pair, pairSlug |-> pairSlug,
       outputPath |-> pathJoin(OUTPUT_DIR_SHOWCASE, pairSlug, categorySlug \o PNG) ]

ShowcaseJob(selectedCategories, selectedPairs, index) ==
  LET category == selectedCategories[(index % Len(selectedCategories)) + 1]
      pair == selectedPairs[((index \div Len(selectedCategories)) % Len(selectedPairs)) + 1]
      pairSlug == slugify(pair.source) \o <<"-">> \o slugify(pair.target)
      categorySlug == slugify(category)
  IN [ category |-> category, categorySlug |-> categorySlug,
       pair |-> pair, pairSlug |-> pairSlug,
       outputPath |-> pathJoin(OUTPUT_DIR_SHOWCASE, pairSlug, categorySlug \o PNG) ]

\* variant: the loop ends when every combination has been used once
RECURSIVE ShowcaseLoopNoWrap(_, _, _, _, _)
ShowcaseLoopNoWrap(acc, index, targetCount, selectedCategories, selectedPairs) ==
  IF /\ targetCount.kind = "num" /\ Len(acc) < targetCount.n
     /\ Len(acc) < Len(selectedCategories) * Len(selectedPairs)
  THEN ShowcaseLoopNoWrap(Append(acc, ShowcaseJob(selectedCategories, selectedPairs, index)),
                          index + 1, targetCount, selectedCategories, selectedPairs)
  ELSE acc

\* the while loop of buildJobs; jobs.length < NaN is false
RECURSIVE ShowcaseLoop(_, _, _, _, _)
ShowcaseLoop(acc, index, targetCount, selectedCategories, selectedPairs) ==
  IF targetCount.kind = "num" /\ Len(acc) < targetCount.n
  THEN ShowcaseLoop(Append(acc, ShowcaseJob(selectedCategories, selectedPairs, index)),
                    index + 1, targetCount, selectedCategories, selectedPairs)
  ELSE acc

\* variant: the catalog is one pass over the categories at most
ShowcaseTargetCountOnePass(opts) ==
  IF opts.maxJobs.kind = "num"
  THEN NumJobs(Min(Max(1, opts.maxJobs.n),
                   IF Len(opts.categories) > 0 THEN Len(opts.categories)
                   ELSE Len(CATEGORIES)))
  ELSE NaNJobs

\* Math.max(1, options.maxJobs); Math.max(1, NaN) is NaN
ShowcaseTargetCount(opts) ==
  IF opts.maxJobs.kind = "num" THEN NumJobs(Max(1, opts.maxJobs.n)) ELSE NaNJobs

buildJobs(opts) ==
  LET selectedCategories == IF Len(opts.categories) > 0 THEN opts.categories ELSE CATEGORIES
      selectedPairs == IF Len(opts.pairs) > 0 THEN opts.pairs ELSE DEFAULT_LANGUAGE_PAIRS
  IN ShowcaseLoop(<<>>, 0, ShowcaseTargetCount(opts), selectedCategories, selectedPairs)

(***************************************************************************)
(* Marketing runner: catalog builder.                                      *)
(***************************************************************************)
Range(s) == { s[i] : i \in 1..Len(s) }

selectTemplates(opts) ==
  IF Len(opts.templates) = 0 THEN TEMPLATE_IMAGES
  ELSE LET wanted == { toLowerCase(t) : t \in Range(opts.templates) }
           Keep(template) == toLowerCase(template.id) \in wanted
       IN SelectSeq(TEMPLATE_IMAGES, Keep)

selectLanguages(opts) ==
  IF Len(opts.languages) = 0 THEN DEFAULT_TARGET_LANGUAGES
  ELSE LET wanted == { toLowerCase(l) : l \in Range(opts.languages) }
           Keep(language) == \/ toLowerCase(language.slug) \in wanted
                             \/ toLowerCase(language.name) \in wanted
       IN SelectSeq(DEFAULT_TARGET_LANGUAGES, Keep)

MarketingJob(template, language) ==
  [ template |-> template, language |-> language,
    outputPath |-> pathJoin(OUTPUT_DIR_MARKETING, language.slug, template.id \o PNG) ]

\* for (template of templates) for (language of languages) jobs.push(...)
RECURSIVE MarketingCross(_, _)
MarketingCross(templates, languages) ==
  IF templates = <<>> THEN <<>>
  ELSE [ j \in 1..Len(languages) |-> MarketingJob(Head(templates), languages[j]) ]
       \o MarketingCross(Tail(templates), languages)

\* variant: the cap keeps the last jobs of the cross product
buildJobsMarketingKeepsLast(opts) ==
  LET all == MarketingCross(selectTemplates(opts), selectLanguages(opts))
      kept == Min(Len(all), Max(1, opts.maxJobs.n))
  IN IF opts.maxJobs.kind = "num" /\ opts.maxJobs.n # 0
     THEN SubSeq(all, Len(all) - kept + 1, Len(all))
     ELSE all

\* if (options.maxJobs && Number.isFinite(options.maxJobs))
\*   return jobs.slice(0, Math.max(1, options.maxJobs))
buildJobsMarketing(opts) ==
  LET all == MarketingCross(selectTemplates(opts), selectLanguages(opts))
  IN IF opts.maxJobs.kind = "num" /\ opts.maxJobs.n # 0
     THEN SubSeq(all, 1, Min(Len(all), Max(1, opts.maxJobs.n)))
     ELSE all

(***************************************************************************)
(* Illustration generator: selection of the objects to generate.           *)
(***************************************************************************)
getObjectsByCategory(category) ==
  LET Keep(obj) == obj.category = category IN SelectSeq(OBJECTS, Keep)

\* objectsToGenerate of main(), and whether the filter came up empty
objectsToGenerate(opts) ==
  IF Len(opts.only) > 0
  THEN LET Keep(obj) == obj.id \in Range(opts.only) IN SelectSeq(OBJECTS, Keep)
  ELSE IF opts.category # "" THEN getObjectsByCategory(opts.category)
  ELSE OBJECTS

isGptImage15(m) == m = DEFAULT_MODEL \/ startsWith(m, GPT_IMAGE_1_5_PREFIX)

IllustrationPath(id) == <<"public/illustrations/", id, ".png">>

(***************************************************************************)
(* Identifier and output path of a job, per runner.                        *)
(***************************************************************************)
JobId(job) ==
  CASE script = "marketing" -> job.template.id \o <<"-">> \o job.language.slug
    [] script = "showcase" -> job.pairSlug \o <<"-">> \o job.categorySlug
    [] OTHER -> <<job.id>>

JobPath(job) ==
  CASE script \in {"marketing", "showcase"} -> job.outputPath
    [] OTHER -> IllustrationPath(job.id)

ImagePath(job) ==
  CASE script = "marketing" ->
         URL_MARKETING \o job.language.slug \o <<"/">> \o job.template.id \o PNG
    [] script = "showcase" ->
         URL_SHOWCASE \o job.pairSlug \o <<"/">> \o job.categorySlug \o PNG
    [] OTHER -> <<"/illustrations/", job.id, ".png">>

(***************************************************************************)
(* Job executor shared by the three image runners.                         *)
(***************************************************************************)
\* what a generation call can come back with: a payload, a response whose
\* b64_json is missing, a response whose b64_json is the empty string, a
\* 404 error, or an error with another status
Outcomes == {"ok", "missing", "blank", "e404", "e400"}
Errors == {"e404", "e400"}

NoWrites == [manifest |-> 0, log |-> 0, translations |-> 0]
EmptyRunLog == [objects |-> <<>>, successCount |-> 0, failCount |-> 0]

CurrentJob == jobs[idx]

\* manifest item pushed by the marketing and showcase loops
Item(job, method, mdl) ==
  [ id |-> JobId(job), imagePath |-> ImagePath(job), method |-> method,
    model |-> IF script = "showcase" THEN mdl ELSE "n/a" ]

\* manifest entry of the illustration generator
Entry(obj) ==
  [ id |-> obj.id, category |-> obj.category, file |-> ImagePath(obj) ]

\* manifest.illustrations after the findIndex / replace-or-push update
UpdateManifest(illustrations, obj) ==
  IF \E i \in 1..Len(illustrations) : illustrations[i].id = obj.id
  THEN LET existingIndex ==
             CHOOSE i \in 1..Len(illustrations) :
               /\ illustrations[i].id = obj.id
               /\ \A k \in 1..(i - 1) : illustrations[k].id # obj.id
       IN [illustrations EXCEPT ![existingIndex] = Entry(obj)]
  ELSE Append(illustrations, Entry(obj))

\* the loop moves on: the illustration generator sleeps batchDelay between
\* two jobs, the other runners go straight to the next job
Advance ==
  IF script = "illustration" /\ idx < Len(jobs)
  THEN pc' = "delay" /\ idx' = idx
  ELSE pc' = "loop" /\ idx' = idx + 1

\* main() returns early or its rejection is handled by main().catch
Exit(code) ==
  /\ pc' = "exited"
  /\ exitCode' = code

\* variant: the image is written but the job leaves no item and no record
JobSucceedsUnrecorded(method, mdl) ==
  /\ disk' = disk \cup {JobPath(CurrentJob)}
  /\ outputWrites' = Append(outputWrites, JobPath(CurrentJob))
  /\ IF script = "illustration"
     THEN /\ items' = UpdateManifest(items, CurrentJob)
          /\ runLog' = [runLog EXCEPT !.successCount = @ + 1]
     ELSE /\ items' = items
          /\ runLog' = runLog
  /\ jobState' = Append(jobState, [index |-> idx, state |-> "SUCCEEDED"])
  /\ Advance
  /\ UNCHANGED << failures, exitCode >>

JobSucceeds(method, mdl) ==
  /\ disk' = disk \cup {JobPath(CurrentJob)}
  /\ outputWrites' = Append(outputWrites, JobPath(CurrentJob))
  /\ IF script = "illustration"
     THEN /\ items' = UpdateManifest(items, CurrentJob)
          /\ runLog' = [runLog EXCEPT
                          !.objects = Append(@, [id |-> CurrentJob.id, success |-> TRUE]),
                          !.successCount = @ + 1]
     ELSE /\ items' = Append(items, Item(CurrentJob, method, mdl))
          /\ runLog' = runLog
  /\ jobState' = Append(jobState, [index |-> idx, state |-> "SUCCEEDED"])
  /\ Advance
  /\ UNCHANGED << failures, exitCode >>

\* variant: a failed job ends the run with the partial-failure status
JobFailsAborts ==
  /\ failures' = failures + 1
  /\ jobState' = Append(jobState, [index |-> idx, state |-> "FAILED"])
  /\ Exit(2)
  /\ UNCHANGED << disk, outputWrites, items, runLog, idx >>

\* variant: the catch branch records a manifest item for the failed job
FailureFrameRecordsItem ==
  /\ items' = IF script = "illustration"
              THEN UpdateManifest(items, CurrentJob)
              ELSE Append(items, Item(CurrentJob, "edit", "edit-model"))
  /\ UNCHANGED << disk, outputWrites, exitCode >>

\* what the failure branch leaves alone: no file, no manifest item, no
\* exit status
FailureFrame ==
  UNCHANGED << disk, outputWrites, items, exitCode >>

JobFails ==
  /\ IF script = "illustration"
     THEN /\ runLog' = [runLog EXCEPT
                          !.objects = Append(@, [id |-> CurrentJob.id, success |-> FALSE]),
                          !.failCount = @ + 1]
          /\ failures' = failures
     ELSE /\ failures' = failures + 1
          /\ runLog' = runLog
  /\ jobState' = Append(jobState, [index |-> idx, state |-> "FAILED"])
  /\ Advance
  /\ FailureFrame

\* saveImage throws in the illustration generator: the rejection leaves
\* main() and main().catch(console.error) only prints it
RunAborts(code) ==
  /\ Exit(code)
  /\ UNCHANGED << disk, outputWrites, items, runLog, failures, jobState, idx >>

\* fs.writeFileSync of the output file after a payload arrived
WriteOutput(w, method, mdl) ==
  IF w THEN JobSucceeds(method, mdl) /\ writeError' = writeError
  ELSE /\ writeError' = "output"
       /\ IF script = "illustration" THEN RunAborts(0) ELSE JobFails

(***************************************************************************)
(* main() up to the job loop.                                              *)
(***************************************************************************)
\* variant: the credential test is left out
MissingCredentialIgnored == FALSE

\* const apiKey = process.env.OPENAI_API_KEY; if (!apiKey) ...
MissingCredential == ~env.apiKey

MarketingStart ==
  /\ script = "marketing" /\ pc = "init"
  /\ jobs' = buildJobsMarketing(options)
  /\ IF Len(jobs') = 0 THEN Exit(1) /\ idx' = idx
     ELSE IF ~env.refsPresent THEN Exit(1) /\ idx' = idx
     ELSE IF options.dryRun THEN Exit(0) /\ idx' = idx
     ELSE IF MissingCredential THEN Exit(1) /\ idx' = idx
     ELSE pc' = "loop" /\ idx' = 1 /\ exitCode' = exitCode
  /\ UNCHANGED << script, options, env, items, failures, runLog, model, disk,
                  outputWrites, manifestFile, logFile, words, translationsFile,
                  fileWrites, writeError, apiCalls, inFlight, jobCalls, fallbackUsed, lastError, response,
                  listCalls, jobState, runNo, delays, firstRun, libVars, serverVars >>

ShowcaseStart ==
  /\ script = "showcase" /\ pc = "init"
  /\ jobs' = buildJobs(options)
  /\ IF ~env.refsPresent THEN Exit(1) /\ idx' = idx
     ELSE IF options.dryRun THEN Exit(0) /\ idx' = idx
     ELSE IF MissingCredential THEN Exit(1) /\ idx' = idx
     ELSE pc' = "loop" /\ idx' = 1 /\ exitCode' = exitCode
  /\ UNCHANGED << script, options, env, items, failures, runLog, model, disk,
                  outputWrites, manifestFile, logFile, words, translationsFile,
                  fileWrites, writeError, apiCalls, inFlight, jobCalls, fallbackUsed, lastError, response,
                  listCalls, jobState, runNo, delays, firstRun, libVars, serverVars >>

\* models resolveImageModel can return: the requested one, or whatever
\* pickPreferredImageModel finds in the account's model list
ResolvableModels ==
  { DEFAULT_MODEL, FALLBACK_MODEL,
    GPT_IMAGE_1_5_PREFIX \o <<"2", "0", "2", "5">>,
    DEFAULT_MODEL \o <<"0">>,
    <<"d", "a", "l", "l", "-", "e", "-", "3">> }

IllustrationStart ==
  /\ script = "illustration" /\ pc = "init"
  /\ jobs' = objectsToGenerate(options)
  /\ IF (Len(options.only) > 0 \/ options.category # "") /\ Len(jobs') = 0
     THEN Exit(1) /\ UNCHANGED << idx, listCalls, model, items >>
     ELSE IF options.dryRun
     THEN Exit(0) /\ UNCHANGED << idx, listCalls, model, items >>
     ELSE IF MissingCredential
     THEN Exit(1) /\ UNCHANGED << idx, listCalls, model, items >>
     ELSE /\ listCalls' = listCalls + 1
          /\ model' \in ResolvableModels
          /\ items' = manifestFile.items
          /\ pc' = "loop" /\ idx' = 1 /\ exitCode' = exitCode
  /\ UNCHANGED << script, options, env, failures, runLog, disk,
                  outputWrites, manifestFile, logFile, words, translationsFile,
                  fileWrites, writeError, apiCalls, inFlight, jobCalls, fallbackUsed, lastError, response,
                  jobState, runNo, delays, firstRun, libVars, serverVars >>

(***************************************************************************)
(* One iteration of the job loop.                                          *)
(***************************************************************************)
\* variant: the skipExisting flag is read inverted
ShouldSkipInverted ==
  /\ script \in {"marketing", "showcase"}
  /\ ~options.skipExisting
  /\ JobPath(CurrentJob) \in disk

\* options.skipExisting && fs.existsSync(job.outputPath); the illustration
\* generator has no such test
ShouldSkip ==
  /\ script \in {"marketing", "showcase"}
  /\ options.skipExisting
  /\ JobPath(CurrentJob) \in disk

\* variant: the skip branch records the item as if it had been generated
SkipJobAsEdit ==
  /\ pc = "loop" /\ idx <= Len(jobs)
  /\ ShouldSkip
  /\ items' = Append(items, Item(CurrentJob, "edit", "edit-model"))
  /\ jobState' = Append(jobState, [index |-> idx, state |-> "SKIPPED"])
  /\ idx' = idx + 1
  /\ jobCalls' = 0 /\ fallbackUsed' = FALSE /\ lastError' = "none"
  /\ response' = "none" /\ writeError' = "none"
  /\ UNCHANGED << script, options, env, jobs, pc, failures, runLog, model,
                  disk, outputWrites, manifestFile, logFile, words,
                  translationsFile, fileWrites, apiCalls, inFlight, listCalls,
                  exitCode, runNo, delays, firstRun, libVars, serverVars >>

\* if (options.skipExisting && fs.existsSync(job.outputPath)) { ...; continue }
SkipJob ==
  /\ pc = "loop" /\ idx <= Len(jobs)
  /\ ShouldSkip
  /\ items' = Append(items, Item(CurrentJob, "existing", "null"))
  /\ jobState' = Append(jobState, [index |-> idx, state |-> "SKIPPED"])
  /\ idx' = idx + 1
  /\ jobCalls' = 0 /\ fallbackUsed' = FALSE /\ lastError' = "none"
  /\ response' = "none" /\ writeError' = "none"
  /\ UNCHANGED << script, options, env, jobs, pc, failures, runLog, model,
                  disk, outputWrites, manifestFile, logFile, words,
                  translationsFile, fileWrites, apiCalls, inFlight, listCalls,
                  exitCode, runNo, delays, firstRun, libVars, serverVars >>

\* variant: the call is issued without the skip-existing test
IssuePrimaryAlways ==
  /\ script \in {"marketing", "showcase", "illustration"}
  /\ pc = "loop" /\ idx <= Len(jobs)
  /\ pc' = "primary"
  /\ apiCalls' = apiCalls + 1
  /\ inFlight' = inFlight + 1
  /\ jobCalls' = 1 /\ fallbackUsed' = FALSE /\ lastError' = "none"
  /\ response' = "none" /\ writeError' = "none"
  /\ UNCHANGED << script, options, env, jobs, idx, items, failures, runLog,
                  model, disk, outputWrites, manifestFile, logFile, words,
                  translationsFile, fileWrites, listCalls, jobState, exitCode,
                  runNo, delays, firstRun, libVars, serverVars >>

\* the primary call is issued: images.edit (marketing, showcase) or
\* images.generate with the resolved model (illustration)
IssuePrimary ==
  /\ script \in {"marketing", "showcase", "illustration"}
  /\ pc = "loop" /\ idx <= Len(jobs)
  /\ ~ShouldSkip
  /\ pc' = "primary"
  /\ apiCalls' = apiCalls + 1
  /\ inFlight' = inFlight + 1
  /\ jobCalls' = 1 /\ fallbackUsed' = FALSE /\ lastError' = "none"
  /\ response' = "none" /\ writeError' = "none"
  /\ UNCHANGED << script, options, env, jobs, idx, items, failures, runLog,
                  model, disk, outputWrites, manifestFile, logFile, words,
                  translationsFile, fileWrites, listCalls, jobState, exitCode,
                  runNo, delays, firstRun, libVars, serverVars >>

\* the fallback call is issued: images.generate with the fallback model
IssueFallback(outcome) ==
  /\ pc' = "fallback"
  /\ apiCalls' = apiCalls + 1
  /\ jobCalls' = jobCalls + 1
  /\ inFlight' = (inFlight - 1) + 1
  /\ fallbackUsed' = TRUE
  /\ lastError' = outcome
  /\ response' = outcome
  /\ UNCHANGED << disk, outputWrites, items, runLog, failures, jobState, idx,
                  exitCode, writeError >>

\* variant: the illustration generator retries after a 404 whatever the
\* model is
FallbackAppliesAfterAny404(outcome) ==
  CASE script = "showcase" -> options.allowFallback
    [] script = "illustration" -> outcome = "e404"
    [] OTHER -> FALSE

\* whether the runner retries a failed primary call with the fallback model
FallbackApplies(outcome) ==
  CASE script = "showcase" -> options.allowFallback
    [] script = "illustration" -> outcome = "e404" /\ isGptImage15(model)
    [] OTHER -> FALSE

\* whether a response without an error counts as carrying an image:
\* marketing and showcase test !imageB64, the illustration generator hands
\* b64_json to Buffer.from, which throws on undefined and accepts ''
HasPayload(outcome) ==
  IF script = "illustration" THEN outcome \in {"ok", "blank"} ELSE outcome = "ok"

\* variant: the loop does not await the call and goes on to the next job
PrimaryResolveUnawaited(outcome, w) ==
  /\ pc = "primary"
  /\ pc' = "loop"
  /\ idx' = idx + 1
  /\ UNCHANGED << script, options, env, jobs, items, failures, runLog, model,
                  disk, outputWrites, manifestFile, logFile, words,
                  translationsFile, fileWrites, writeError, apiCalls, inFlight,
                  jobCalls, fallbackUsed, lastError, response, listCalls,
                  jobState, exitCode, runNo, delays, firstRun, libVars, serverVars >>

\* the awaited primary call settles: result = await generateFromEdit(...) /
\* await client.images.edit(...) / await generateIllustration(...)
PrimaryResolve(outcome, w) ==
  /\ pc = "primary"
  /\ IF outcome \in Errors /\ FallbackApplies(outcome)
     THEN IssueFallback(outcome)
     ELSE /\ IF HasPayload(outcome)
             THEN WriteOutput(w, "edit", "edit-model")
             ELSE JobFails /\ writeError' = writeError
          /\ lastError' = IF outcome \in Errors THEN outcome ELSE lastError
          /\ response' = outcome
          /\ inFlight' = inFlight - 1
          /\ UNCHANGED << apiCalls, jobCalls, fallbackUsed >>
  /\ UNCHANGED << script, options, env, jobs, model, manifestFile, logFile,
                  words, translationsFile, fileWrites, listCalls, runNo,
                  delays, firstRun, libVars, serverVars >>

\* variant: a failed fallback call is retried
FallbackResolveRetries(outcome, w) ==
  /\ pc = "fallback"
  /\ IF HasPayload(outcome)
     THEN /\ WriteOutput(w, "generate-fallback", "fallback-model")
          /\ response' = outcome
          /\ inFlight' = inFlight - 1
          /\ UNCHANGED << apiCalls, jobCalls, fallbackUsed, lastError >>
     ELSE IssueFallback(lastError)
  /\ UNCHANGED << script, options, env, jobs, model, manifestFile, logFile,
                  words, translationsFile, fileWrites, listCalls, runNo,
                  delays, firstRun, libVars, serverVars >>

FallbackResolve(outcome, w) ==
  /\ pc = "fallback"
  /\ IF HasPayload(outcome)
     THEN WriteOutput(w, "generate-fallback", "fallback-model")
     ELSE JobFails /\ writeError' = writeError
  /\ response' = outcome
  /\ inFlight' = inFlight - 1
  /\ UNCHANGED << script, options, env, jobs, model, manifestFile, logFile,
                  words, translationsFile, fileWrites, listCalls, runNo,
                  delays, firstRun, apiCalls, jobCalls, fallbackUsed,
                  lastError,
                  libVars, serverVars >>

\* await new Promise(resolve => setTimeout(resolve, CONFIG.batchDelay))
DelayElapsed ==
  /\ pc = "delay"
  /\ pc' = "loop"
  /\ idx' = idx + 1
  /\ delays' = delays + 1
  /\ UNCHANGED << script, options, env, jobs, items, failures, runLog, model,
                  disk, outputWrites, manifestFile, logFile, words,
                  translationsFile, fileWrites, writeError, apiCalls, inFlight,
                  jobCalls, fallbackUsed, lastError, response, listCalls,
                  jobState, exitCode, runNo, firstRun, libVars, serverVars >>

\* variant: the entries the file holds are kept in front of this run's
saveManifestMerging(memItems) ==
  [exists |-> TRUE, items |-> manifestFile.items \o memItems]

\* marketing and showcase: saveManifest(items, options) replaces the file
saveManifest(memItems) == [exists |-> TRUE, items |-> memItems]

(***************************************************************************)
(* End of the run.                                                         *)
(***************************************************************************)
\* variant: the manifest is saved without waiting for the end of the loop
FinishRunEarly(w) ==
  /\ script \in {"marketing", "showcase"}
  /\ pc = "loop"
  /\ IF w
     THEN /\ manifestFile' = [exists |-> TRUE, items |-> items]
          /\ fileWrites' = [fileWrites EXCEPT !.manifest = @ + 1]
          /\ pc' = "done"
          /\ exitCode' = IF failures > 0 THEN 2 ELSE 0
     ELSE /\ Exit(1)
          /\ UNCHANGED << manifestFile, fileWrites >>
  /\ writeError' = IF w THEN writeError ELSE "manifest"
  /\ UNCHANGED << script, options, env, jobs, idx, items, failures, runLog,
                  model, disk, outputWrites, logFile, words, translationsFile,
                  apiCalls, inFlight, jobCalls, fallbackUsed, lastError, response, listCalls,
                  jobState, runNo, delays, firstRun, libVars, serverVars >>

\* marketing, showcase: saveManifest(items, ...) then the exit status; a throw
\* of writeFileSync rejects main() and main().catch sets exit status 1
FinishRun(w) ==
  /\ script \in {"marketing", "showcase"}
  /\ pc = "loop" /\ idx > Len(jobs)
  /\ IF w
     THEN /\ manifestFile' = saveManifest(items)
          /\ fileWrites' = [fileWrites EXCEPT !.manifest = @ + 1]
          /\ pc' = "done"
          /\ exitCode' = IF failures > 0 THEN 2 ELSE 0
     ELSE /\ Exit(1)
          /\ UNCHANGED << manifestFile, fileWrites >>
  /\ writeError' = IF w THEN writeError ELSE "manifest"
  /\ UNCHANGED << script, options, env, jobs, idx, items, failures, runLog,
                  model, disk, outputWrites, logFile, words, translationsFile,
                  apiCalls, inFlight, jobCalls, fallbackUsed, lastError, response, listCalls,
                  jobState, runNo, delays, firstRun, libVars, serverVars >>

\* illustration: log.runs.push(runLog); saveLog(log); saveManifest(manifest);
\* the summary follows and no exit status is set
\* variant: the log written holds the record of this run only
IllustrationFinishFreshLog(wLog, wManifest) ==
  /\ script = "illustration"
  /\ pc = "loop" /\ idx > Len(jobs)
  /\ IF ~wLog
     THEN /\ Exit(0)
          /\ writeError' = "log"
          /\ UNCHANGED << logFile, manifestFile, fileWrites >>
     ELSE /\ logFile' = [exists |-> TRUE, runs |-> <<runLog>>]
          /\ writeError' = IF wManifest THEN writeError ELSE "manifest"
          /\ IF ~wManifest
             THEN /\ Exit(0)
                  /\ manifestFile' = manifestFile
                  /\ fileWrites' = [fileWrites EXCEPT !.log = @ + 1]
             ELSE /\ manifestFile' = [exists |-> TRUE, items |-> items]
                  /\ fileWrites' = [fileWrites EXCEPT !.log = @ + 1, !.manifest = @ + 1]
                  /\ pc' = "done"
                  /\ exitCode' = 0
  /\ UNCHANGED << script, options, env, jobs, idx, items, failures, runLog,
                  model, disk, outputWrites, words, translationsFile,
                  apiCalls, inFlight, jobCalls, fallbackUsed, lastError, response, listCalls,
                  jobState, runNo, delays, firstRun, libVars, serverVars >>

IllustrationFinish(wLog, wManifest) ==
  /\ script = "illustration"
  /\ pc = "loop" /\ idx > Len(jobs)
  /\ IF ~wLog
     THEN /\ Exit(0)
          /\ writeError' = "log"
          /\ UNCHANGED << logFile, manifestFile, fileWrites >>
     ELSE /\ logFile' = [exists |-> TRUE, runs |-> Append(logFile.runs, runLog)]
          /\ writeError' = IF wManifest THEN writeError ELSE "manifest"
          /\ IF ~wManifest
             THEN /\ Exit(0)
                  /\ manifestFile' = manifestFile
                  /\ fileWrites' = [fileWrites EXCEPT !.log = @ + 1]
             ELSE /\ manifestFile' = [exists |-> TRUE, items |-> items]
                  /\ fileWrites' = [fileWrites EXCEPT !.log = @ + 1, !.manifest = @ + 1]
                  /\ pc' = "done"
                  /\ exitCode' = 0
  /\ UNCHANGED << script, options, env, jobs, idx, items, failures, runLog,
                  model, disk, outputWrites, words, translationsFile,
                  apiCalls, inFlight, jobCalls, fallbackUsed, lastError, response, listCalls,
                  jobState, runNo, delays, firstRun, libVars, serverVars >>

(***************************************************************************)
(* Word-translation script.                                                *)
(***************************************************************************)
\* src/data/languages.json and src/data/stickers.json as read by main()
AllLanguages == <<"en", "so", "es">>
Stickers == <<"cat", "dog">>

\* ensureEnglishWords: en = en || sticker.label
ensureEnglishWords(baseWords) ==
  [ w \in DOMAIN baseWords |->
      [baseWords[w] EXCEPT !["en"] = IF @ = "" THEN "label" ELSE @] ]

targetLanguages(opts) ==
  LET Wanted(language) == Len(opts.trLanguages) = 0 \/ language \in Range(opts.trLanguages)
      NotEnglish(language) == language # "en"
  IN SelectSeq(SelectSeq(AllLanguages, Wanted), NotEnglish)

targetWordIds(opts) ==
  LET Keep(id) == Len(opts.trWords) = 0 \/ id \in Range(opts.trWords)
  IN SelectSeq(Stickers, Keep)

\* variant: every targeted word is requested, translated or not
entriesToTranslateAll(opts, ws, language) == targetWordIds(opts)

entriesToTranslate(opts, ws, language) ==
  LET Keep(wordId) == opts.overwrite \/ ws[wordId][language] = ""
  IN SelectSeq(targetWordIds(opts), Keep)

TranslationStart ==
  /\ script = "translations" /\ pc = "init"
  /\ IF MissingCredential
     THEN Exit(1) /\ UNCHANGED << words, jobs, idx >>
     ELSE /\ words' = ensureEnglishWords(translationsFile)
          /\ jobs' = targetLanguages(options)
          /\ IF Len(jobs') = 0
             THEN Exit(0) /\ idx' = idx
             ELSE pc' = "trloop" /\ idx' = 1 /\ exitCode' = exitCode
  /\ UNCHANGED << script, options, env, items, failures, runLog, model, disk,
                  outputWrites, manifestFile, logFile, translationsFile,
                  fileWrites, writeError, apiCalls, inFlight, jobCalls, fallbackUsed, lastError, response,
                  listCalls, jobState, runNo, delays, firstRun, libVars, serverVars >>

\* a language with nothing to translate is skipped
TranslationSkip ==
  /\ script = "translations" /\ pc = "trloop" /\ idx <= Len(jobs)
  /\ Len(entriesToTranslate(options, words, jobs[idx])) = 0
  /\ idx' = idx + 1
  /\ jobState' = Append(jobState, [index |-> idx, state |-> "SKIPPED"])
  /\ UNCHANGED << script, options, env, jobs, pc, items, failures, runLog,
                  model, disk, outputWrites, manifestFile, logFile, words,
                  translationsFile, fileWrites, writeError, apiCalls, inFlight, jobCalls,
                  fallbackUsed, lastError, response, listCalls, exitCode, runNo, delays,
                  firstRun, libVars, serverVars >>

\* translateLanguage issues client.chat.completions.create
TranslationCall ==
  /\ script = "translations" /\ pc = "trloop" /\ idx <= Len(jobs)
  /\ Len(entriesToTranslate(options, words, jobs[idx])) > 0
  /\ pc' = "trcall"
  /\ apiCalls' = apiCalls + 1
  /\ inFlight' = inFlight + 1
  /\ jobCalls' = 1
  /\ response' = "none"
  /\ UNCHANGED << script, options, env, jobs, idx, items, failures, runLog,
                  model, disk, outputWrites, manifestFile, logFile, words,
                  translationsFile, fileWrites, writeError, fallbackUsed, lastError,
                  listCalls, jobState, exitCode, runNo, delays, firstRun, libVars, serverVars >>

\* variant: a call that throws is logged and the loop goes on
TranslationResolveSkipsFailed(ok, returned) ==
  /\ script = "translations" /\ pc = "trcall"
  /\ LET language == jobs[idx]
         entries == Range(entriesToTranslate(options, words, language))
     IN IF ~ok
        THEN /\ jobState' = Append(jobState, [index |-> idx, state |-> "FAILED"])
             /\ words' = words
        ELSE /\ returned \subseteq entries
             /\ words' = [ w \in DOMAIN words |->
                             IF w \in entries
                             THEN [words[w] EXCEPT ![language] =
                                     IF w \in returned THEN "new" ELSE words[w]["en"]]
                             ELSE words[w] ]
             /\ jobState' = Append(jobState, [index |-> idx, state |-> "SUCCEEDED"])
  /\ pc' = "trloop" /\ idx' = idx + 1 /\ exitCode' = exitCode
  /\ inFlight' = inFlight - 1
  /\ response' = IF ok THEN "ok" ELSE "e400"
  /\ UNCHANGED << script, options, env, jobs, items, failures, runLog,
                  model, disk, outputWrites, manifestFile, logFile,
                  translationsFile, fileWrites, writeError, apiCalls, jobCalls,
                  fallbackUsed, lastError, listCalls, runNo, delays, firstRun, libVars, serverVars >>

\* the call resolves: it throws, or returns usable strings for the word ids
\* in `returned`; words[id][slug] = translated[id] || entry.english
TranslationResolve(ok, returned) ==
  /\ script = "translations" /\ pc = "trcall"
  /\ LET language == jobs[idx]
         entries == Range(entriesToTranslate(options, words, language))
     IN IF ~ok
        THEN /\ Exit(1)
             /\ jobState' = Append(jobState, [index |-> idx, state |-> "FAILED"])
             /\ UNCHANGED << words, idx >>
        ELSE /\ returned \subseteq entries
             /\ words' = [ w \in DOMAIN words |->
                             IF w \in entries
                             THEN [words[w] EXCEPT ![language] =
                                     IF w \in returned THEN "new" ELSE words[w]["en"]]
                             ELSE words[w] ]
             /\ jobState' = Append(jobState, [index |-> idx, state |-> "SUCCEEDED"])
             /\ pc' = "trloop" /\ idx' = idx + 1 /\ exitCode' = exitCode
  /\ inFlight' = inFlight - 1
  /\ response' = IF ok THEN "ok" ELSE "e400"
  /\ UNCHANGED << script, options, env, jobs, items, failures, runLog,
                  model, disk, outputWrites, manifestFile, logFile,
                  translationsFile, fileWrites, writeError, apiCalls, jobCalls,
                  fallbackUsed, lastError, listCalls, runNo, delays, firstRun, libVars, serverVars >>

\* reorderWords keeps every non-empty (word, language) value and only fixes
\* the key order; a dry run returns before writeJson
TranslationFinish(w) ==
  /\ script = "translations" /\ pc = "trloop" /\ idx > Len(jobs)
  /\ IF options.dryRun
     THEN Exit(0) /\ UNCHANGED << translationsFile, fileWrites, writeError >>
     ELSE IF w
     THEN /\ translationsFile' = words
          /\ fileWrites' = [fileWrites EXCEPT !.translations = @ + 1]
          /\ pc' = "done"
          /\ exitCode' = 0
          /\ writeError' = writeError
     ELSE /\ Exit(1)
          /\ writeError' = "translations"
          /\ UNCHANGED << translationsFile, fileWrites >>
  /\ UNCHANGED << script, options, env, jobs, idx, items, failures, runLog,
                  model, disk, outputWrites, manifestFile, logFile, words,
                  apiCalls, inFlight, jobCalls, fallbackUsed, lastError, response, listCalls,
                  jobState, runNo, delays, firstRun, libVars, serverVars >>

(***************************************************************************)
(* The same command is run a second time with the same arguments and       *)
(* environment, on the files the first run left behind.                    *)
(***************************************************************************)
(***************************************************************************)
(* The prompt library and the dev-server wrapper are programs of their     *)
(* own: while a generator runs, no library call is under study and the     *)
(* dev server's files and processes are at rest.                           *)
(***************************************************************************)
Pids == 1..MaxPid

NoCall == [ fn |-> "none", state |-> "idle" ]

NoPidFile == [ exists |-> FALSE, pid |-> 0 ]

NoMetaFile == [ exists |-> FALSE, port |-> 0 ]

ServerIdle ==
  /\ pidFile = NoPidFile /\ metaFile = NoMetaFile
  /\ procs = [ p \in Pids |-> "dead" ]
  /\ cmd = <<>> /\ spawned = <<>> /\ signals = <<>>

NoFirstRun ==
  [ pc |-> "none", items |-> <<>>, apiCalls |-> 0, exitCode |-> -1,
    jobState |-> <<>>, disk |-> {} ]

Rerun ==
  /\ pc \in {"done", "exited"} /\ runNo = 1
  /\ runNo' = 2
  /\ firstRun' = [ pc |-> pc, items |-> items, apiCalls |-> apiCalls,
                   exitCode |-> exitCode, jobState |-> jobState, disk |-> disk ]
  /\ pc' = "init"
  /\ jobs' = <<>> /\ idx' = 0 /\ items' = <<>> /\ failures' = 0
  /\ runLog' = EmptyRunLog /\ model' = DEFAULT_MODEL
  /\ outputWrites' = <<>> /\ fileWrites' = NoWrites
  /\ words' = translationsFile
  /\ apiCalls' = 0 /\ jobCalls' = 0 /\ fallbackUsed' = FALSE
  /\ lastError' = "none" /\ listCalls' = 0 /\ jobState' = <<>>
  /\ exitCode' = -1
  /\ inFlight' = 0 /\ response' = "none" /\ writeError' = "none"
  /\ delays' = 0
  /\ UNCHANGED << script, options, env, disk, manifestFile, logFile,
                  translationsFile, libVars, serverVars >>

(***************************************************************************)
(* Command lines and environments the executor is run on.                  *)
(***************************************************************************)
Scripts == {"marketing", "showcase", "illustration", "translations"}

ExecMaxJobs == {NaNJobs} \cup { NumJobs(n) : n \in 0..MaxCatalog }

ExecTemplateLists ==
  { <<>>,
    << TEMPLATE_IMAGES[1].id >>,
    << <<"A", "P", "P", "m", "a", "r", "k", "e", "t", "i", "n", "g", "0", "1">>,
       TEMPLATE_IMAGES[2].id >>,
    << <<"n", "o", "n", "e">> >> }

ExecLanguageLists ==
  { <<>>,
    << DEFAULT_TARGET_LANGUAGES[1].slug >>,
    << DEFAULT_TARGET_LANGUAGES[1].name, DEFAULT_TARGET_LANGUAGES[2].slug >> }

ExecCategoryLists == { <<>>, << CATEGORIES[1] >>, << CATEGORIES[1], CATEGORIES[5] >> }
ExecPairLists == { <<>>, << DEFAULT_LANGUAGE_PAIRS[1] >> }
ExecOnlyLists == { << "cat" >>, << "cat", "dog" >>, << "unicorn" >> }

Catalog(s, opts) ==
  CASE s = "marketing" -> buildJobsMarketing(opts)
    [] s = "showcase" -> buildJobs(opts)
    [] s = "illustration" -> objectsToGenerate(opts)
    [] OTHER -> <<>>

ExecOptions(s) ==
  CASE s = "marketing" ->
         { o \in { [DefaultOptions EXCEPT !.dryRun = d, !.skipExisting = k,
                      !.templates = t, !.languages = l, !.maxJobs = m] :
                    d \in BOOLEAN, k \in BOOLEAN, t \in ExecTemplateLists,
                    l \in ExecLanguageLists, m \in ExecMaxJobs \cup {NoMaxJobs} } :
             Len(buildJobsMarketing(o)) <= MaxCatalog }
    [] s = "showcase" ->
         { [DefaultOptions EXCEPT !.dryRun = d, !.skipExisting = k,
              !.allowFallback = f, !.categories = c, !.pairs = p, !.maxJobs = m] :
             d \in BOOLEAN, k \in BOOLEAN, f \in BOOLEAN, c \in ExecCategoryLists,
             p \in ExecPairLists, m \in ExecMaxJobs }
    [] s = "illustration" ->
         { [DefaultOptions EXCEPT !.dryRun = d, !.only = o, !.requestedModel = r] :
             d \in BOOLEAN, o \in ExecOnlyLists, r \in {DEFAULT_MODEL, FALLBACK_MODEL} }
    [] OTHER ->
         { [DefaultOptions EXCEPT !.dryRun = d, !.overwrite = v,
              !.trLanguages = l, !.trWords = w] :
             d \in BOOLEAN, v \in BOOLEAN,
             l \in { <<>>, << "so" >>, << "en" >> },
             w \in { <<>>, << "cat" >> } }

\* word-translations.json before the run: English is present, every other
\* (word, language) value is present ("old") or missing ("")
InitialTranslations ==
  { f \in [ Range(Stickers) -> [ Range(AllLanguages) -> {"", "old"} ] ] :
      \A w \in Range(Stickers) : f[w]["en"] = "old" }

\* manifest item of a job that an earlier run had and no catalog has now
RetiredItem ==
  [ id |-> <<"r", "e", "t", "i", "r", "e", "d">>,
    imagePath |-> <<"r", "e", "t", "i", "r", "e", "d", ".", "p", "n", "g">>,
    method |-> "edit", model |-> "n/a" ]

\* manifest a run finds.  Illustration generator: none, or entries of
\* earlier runs.  Marketing and showcase: the earlier run that left the
\* output files on disk left a manifest too, with an item of a retired job
InitialManifests(s, d) ==
  IF s = "illustration"
  THEN { [exists |-> FALSE, items |-> <<>>],
         [exists |-> TRUE, items |-> << Entry(OBJECTS[1]), Entry(OBJECTS[10]) >>] }
  ELSE IF d = {} THEN { [exists |-> FALSE, items |-> <<>>] }
  ELSE { [exists |-> TRUE, items |-> << RetiredItem >>] }

PathOf(s, job) ==
  IF s = "illustration" THEN IllustrationPath(job.id) ELSE job.outputPath

Init ==
  /\ script \in Scripts
  /\ options \in ExecOptions(script)
  /\ env \in [ apiKey : BOOLEAN, refsPresent : BOOLEAN ]
  /\ script \in {"illustration", "translations"} => env.refsPresent
  /\ disk \in SUBSET { PathOf(script, j) : j \in Range(Catalog(script, options)) }
  /\ script \in {"illustration", "translations"} => disk = {}
  /\ manifestFile \in InitialManifests(script, disk)
  /\ logFile = [exists |-> FALSE, runs |-> <<>>]
  /\ translationsFile \in IF script = "translations" THEN InitialTranslations
                          ELSE { [ w \in Range(Stickers) |->
                                     [ l \in Range(AllLanguages) |-> "old" ] ] }
  /\ words = translationsFile
  /\ jobs = <<>> /\ pc = "init" /\ idx = 0 /\ items = <<>> /\ failures = 0
  /\ runLog = EmptyRunLog /\ model = DEFAULT_MODEL
  /\ outputWrites = <<>> /\ fileWrites = NoWrites
  /\ apiCalls = 0 /\ jobCalls = 0 /\ fallbackUsed = FALSE
  /\ lastError = "none" /\ listCalls = 0 /\ jobState = <<>>
  /\ exitCode = -1 /\ runNo = 1 /\ firstRun = NoFirstRun
  /\ inFlight = 0 /\ response = "none" /\ writeError = "none" /\ delays = 0
  /\ call = NoCall /\ ServerIdle

Next ==
  \/ MarketingStart
  \/ ShowcaseStart
  \/ IllustrationStart
  \/ SkipJob
  \/ IssuePrimary
  \/ \E outcome \in Outcomes, w \in BOOLEAN : PrimaryResolve(outcome, w)
  \/ \E outcome \in Outcomes, w \in BOOLEAN : FallbackResolve(outcome, w)
  \/ DelayElapsed
  \/ \E w \in BOOLEAN : FinishRun(w)
  \/ \E wLog \in BOOLEAN, wManifest \in BOOLEAN : IllustrationFinish(wLog, wManifest)
  \/ TranslationStart
  \/ TranslationSkip
  \/ TranslationCall
  \/ \E ok \in BOOLEAN, returned \in SUBSET Range(Stickers) : TranslationResolve(ok, returned)
  \/ \E w \in BOOLEAN : TranslationFinish(w)
  \/ Rerun

Spec == Init /\ [][Next]_vars

TypeOK ==
  /\ script \in Scripts
  /\ pc \in {"init", "loop", "primary", "fallback", "delay", "trloop", "trcall",
             "done", "exited"}
  /\ idx \in 0..(Len(jobs) + 1)
  /\ exitCode \in {-1, 0, 1, 2}
  /\ runNo \in {1, 2}
  /\ inFlight \in {0, 1}
  /\ response \in Outcomes \cup {"none"}
  /\ writeError \in {"none", "output", "manifest", "log", "translations"}
  /\ delays \in 0..Len(jobs)

(***************************************************************************)
(* Catalog builders on their own: the command line is drawn from bounded   *)
(* sets and the builder is applied once.                                   *)
(***************************************************************************)
UserChars == {"a", "A", "-", "&", " "}

RECURSIVE StringsOfLen(_)
StringsOfLen(n) ==
  IF n = 0 THEN { <<>> }
  ELSE { <<c>> \o s : c \in UserChars, s \in StringsOfLen(n - 1) }

\* tokens parseArgs lets through: trimmed and non-empty
UserStrings ==
  { s \in UNION { StringsOfLen(n) : n \in 1..MaxLen } : trim(s) = s }

UserTokens == { s \in StringsOfLen(1) : trim(s) = s }

RECURSIVE ListsOfLen(_, _)
ListsOfLen(S, n) ==
  IF n = 0 THEN { <<>> }
  ELSE { <<x>> \o l : x \in S, l \in ListsOfLen(S, n - 1) }

ListsUpTo(S, n) == UNION { ListsOfLen(S, k) : k \in 1..n }

UserCategoryLists == ListsUpTo(UserStrings, MaxUserList)
UserPairLists ==
  ListsUpTo({ [source |-> s, target |-> t] : s \in UserTokens, t \in UserTokens },
            MaxUserList)

SmallMaxJobs == {NaNJobs} \cup { NumJobs(n) : n \in (-1)..MaxJobsArg }

\* --max-jobs around the size of the built-in cross product
BuiltinProduct == Len(CATEGORIES) * Len(DEFAULT_LANGUAGE_PAIRS)
WrapMaxJobs == { NumJobs(n) : n \in (BuiltinProduct - 1)..(BuiltinProduct + MaxWrap) }

\* command lines of the showcase runner with the built-in lists
BuiltinShowcaseOptions(o) ==
  \E m \in SmallMaxJobs \cup WrapMaxJobs :
    o = [DefaultOptions EXCEPT !.maxJobs = m]

\* command lines of the showcase runner with --categories or --pairs
UserShowcaseOptions(o) ==
  \/ \E c \in UserCategoryLists, m \in SmallMaxJobs :
       o = [DefaultOptions EXCEPT !.categories = c, !.maxJobs = m]
  \/ \E p \in UserPairLists, m \in SmallMaxJobs :
       o = [DefaultOptions EXCEPT !.categories = << <<"a">> >>, !.pairs = p,
                                  !.maxJobs = m]

\* command lines of the marketing runner
MarketingCatalogOptions(o) ==
  \E t \in ExecTemplateLists, l \in ExecLanguageLists,
     m \in SmallMaxJobs \cup {NoMaxJobs} :
    o = [DefaultOptions EXCEPT !.templates = t, !.languages = l, !.maxJobs = m]

\* no generator has started
GeneratorIdle ==
  /\ env = [apiKey |-> TRUE, refsPresent |-> TRUE]
  /\ disk = {}
  /\ manifestFile = [exists |-> FALSE, items |-> <<>>]
  /\ logFile = [exists |-> FALSE, runs |-> <<>>]
  /\ translationsFile = [ w \in Range(Stickers) |-> [ l \in Range(AllLanguages) |-> "old" ] ]
  /\ words = translationsFile
  /\ jobs = <<>> /\ pc = "init" /\ idx = 0 /\ items = <<>> /\ failures = 0
  /\ runLog = EmptyRunLog /\ model = DEFAULT_MODEL
  /\ outputWrites = <<>> /\ fileWrites = NoWrites
  /\ apiCalls = 0 /\ jobCalls = 0 /\ fallbackUsed = FALSE
  /\ lastError = "none" /\ listCalls = 0 /\ jobState = <<>>
  /\ exitCode = -1 /\ runNo = 1 /\ firstRun = NoFirstRun
  /\ inFlight = 0 /\ response = "none" /\ writeError = "none" /\ delays = 0

IdleState == GeneratorIdle /\ call = NoCall /\ ServerIdle

InitBuiltin ==
  /\ \/ script = "showcase" /\ BuiltinShowcaseOptions(options)
     \/ script = "marketing" /\ MarketingCatalogOptions(options)
  /\ IdleState

InitCatalog ==
  /\ \/ script = "showcase" /\ BuiltinShowcaseOptions(options)
     \/ script = "showcase" /\ UserShowcaseOptions(options)
     \/ script = "marketing" /\ MarketingCatalogOptions(options)
  /\ IdleState

BuildShowcase ==
  /\ script = "showcase" /\ pc = "init"
  /\ jobs' = buildJobs(options)
  /\ pc' = "built"
  /\ UNCHANGED << script, options, env, idx, items, failures, runLog, model,
                  disk, outputWrites, manifestFile, logFile, words,
                  translationsFile, fileWrites, writeError, apiCalls, inFlight, jobCalls,
                  fallbackUsed, lastError, response, listCalls, jobState, exitCode,
                  runNo, delays, firstRun, libVars, serverVars >>

BuildMarketing ==
  /\ script = "marketing" /\ pc = "init"
  /\ jobs' = buildJobsMarketing(options)
  /\ pc' = "built"
  /\ UNCHANGED << script, options, env, idx, items, failures, runLog, model,
                  disk, outputWrites, manifestFile, logFile, words,
                  translationsFile, fileWrites, writeError, apiCalls, inFlight, jobCalls,
                  fallbackUsed, lastError, response, listCalls, jobState, exitCode,
                  runNo, delays, firstRun, libVars, serverVars >>

NextCatalog == BuildShowcase \/ BuildMarketing

SpecCatalog == InitCatalog /\ [][NextCatalog]_vars

SpecBuiltin == InitBuiltin /\ [][NextCatalog]_vars

(***************************************************************************)
(* Properties.                                                             *)
(***************************************************************************)
ImageRunner == script \in {"marketing", "showcase", "illustration"}
SkipRunner == script \in {"marketing", "showcase"}

States(history) == { history[k].state : k \in 1..Len(history) }

\* number of manifest items the marketing or showcase loop has pushed once
\* the first i jobs of a run are finished
ItemsAfter(history, i) ==
  Cardinality({ k \in 1..i : history[k].state # "FAILED" })

\* C1 (as stated): a second run with skip-existing enabled and the same
\* inputs issues no generation API call at all.
C1_ZeroCallsOnRerun ==
  (SkipRunner /\ options.skipExisting /\ runNo = 2) => apiCalls = 0

\* C1 (amended): on the second run with skip-existing enabled, generation
\* calls are issued only for jobs that ended FAILED in the first run; when
\* the first run had no failed job the second run issues no call.
C1_NoRegeneration ==
  (SkipRunner /\ options.skipExisting /\ runNo = 2) =>
    /\ \A k \in 1..Len(jobState) :
         jobState[k].state # "SKIPPED" => firstRun.jobState[k].state = "FAILED"
    /\ pc \in {"primary", "fallback"} => firstRun.jobState[idx].state = "FAILED"
    /\ "FAILED" \notin States(firstRun.jobState) => apiCalls = 0

C1_Witness ==
  /\ SkipRunner /\ options.skipExisting /\ runNo = 2 /\ pc = "done"
  /\ Len(jobs) = 2 /\ firstRun.apiCalls = 2 /\ apiCalls = 0

\* C2 (as stated): the manifest items of the second run equal those of the
\* first run.
C2_IdenticalManifest ==
  (SkipRunner /\ options.skipExisting /\ runNo = 2 /\ pc = "done"
     /\ firstRun.pc = "done") => items = firstRun.items

\* C2 (amended): every job the first run recorded in its manifest is
\* recorded by the second run with the same id and imagePath, but with
\* method `existing` and no model instead of the method and model of the
\* first run.
C2_SameIdsMethodExisting ==
  (SkipRunner /\ options.skipExisting /\ runNo = 2 /\ pc = "done") =>
    \A i \in 1..Len(firstRun.jobState) :
      firstRun.jobState[i].state # "FAILED" =>
        LET a == firstRun.items[ItemsAfter(firstRun.jobState, i)]
            b == items[ItemsAfter(jobState, i)]
        IN /\ jobState[i].state = "SKIPPED"
           /\ b.id = a.id
           /\ b.imagePath = a.imagePath
           /\ b.method = "existing"
           /\ b.model = IF script = "showcase" THEN "null" ELSE "n/a"

C2_Witness ==
  /\ SkipRunner /\ options.skipExisting /\ runNo = 2 /\ pc = "done"
  /\ Len(firstRun.items) = 2 /\ Len(items) = 2
  /\ firstRun.items[1].method = "edit" /\ items[1].method = "existing"
  /\ firstRun.items[2].method = "generate-fallback"

\* C3: a job reached with skip-existing enabled while its output path exists
\* goes PENDING -> SKIPPED: an item with method `existing` is recorded, no
\* generation call is issued and no output file is written.
C3_SkipExisting ==
  [][ (pc = "loop" /\ idx <= Len(jobs) /\ SkipRunner /\ options.skipExisting
         /\ JobPath(jobs[idx]) \in disk)
      => /\ jobState' = Append(jobState, [index |-> idx, state |-> "SKIPPED"])
         /\ Len(items') = Len(items) + 1
         /\ items'[Len(items')].id = JobId(jobs[idx])
         /\ items'[Len(items')].method = "existing"
         /\ SubSeq(items', 1, Len(items)) = items
         /\ apiCalls' = apiCalls
         /\ pc' = "loop"
         /\ disk' = disk /\ outputWrites' = outputWrites ]_vars

C3_Witness ==
  /\ SkipRunner /\ options.skipExisting /\ runNo = 1
  /\ Len(jobState) = 2 /\ jobState[2].state = "SKIPPED"
  /\ items[Len(items)].method = "existing"
  /\ JobPath(jobs[2]) \in disk /\ outputWrites = <<>> /\ apiCalls = 1

\* C4: a run with --dry-run makes no network call and writes neither an
\* output file nor the manifest, the log or the translations file.
C4_DryRunPure ==
  options.dryRun =>
    /\ apiCalls = 0 /\ listCalls = 0
    /\ outputWrites = <<>> /\ fileWrites = NoWrites

SuccessCount == IF script = "illustration" THEN runLog.successCount ELSE Len(items)
FailureCount == IF script = "illustration" THEN runLog.failCount ELSE failures

\* C5: a completed run with successCount > 0 and failureCount > 0 exits
\* with the partial-failure code 2.
C5_PartialFailureExitCode ==
  (ImageRunner /\ pc = "done" /\ SuccessCount > 0 /\ FailureCount > 0) => exitCode = 2

\* C6: a job failure never aborts the run: the step in which a job ends
\* FAILED leaves the executor in its loop, and when the summary is reached
\* every job of the catalog has exactly one terminal state, recorded in
\* catalog order.
C6_FailureDoesNotAbort ==
  /\ [](ImageRunner =>
          /\ \A k \in 1..Len(jobState) :
               /\ jobState[k].index = k
               /\ jobState[k].state \in {"SKIPPED", "SUCCEEDED", "FAILED"}
          /\ Len(jobState) <= Len(jobs)
          /\ pc = "done" => Len(jobState) = Len(jobs))
  /\ [][ (ImageRunner /\ Len(jobState') = Len(jobState) + 1
            /\ jobState'[Len(jobState')].state = "FAILED")
         => /\ pc' \in {"loop", "delay"}
            /\ exitCode' = -1
            /\ (pc' = "loop" => idx' = idx + 1) ]_vars

C6_Witness ==
  /\ ImageRunner /\ pc = "done" /\ Len(jobs) = 2
  /\ jobState[1].state = "FAILED" /\ jobState[2].state = "SUCCEEDED"

\* C7: the generation API is invoked at most twice for a job (primary and
\* one fallback), and a fallback call that fails ends the job as FAILED
\* without a further call.
C7_FallbackBounded ==
  /\ [](ImageRunner => jobCalls <= 2 /\ (fallbackUsed => jobCalls = 2))
  /\ [][ (ImageRunner /\ pc = "fallback")
         => /\ apiCalls' = apiCalls /\ jobCalls' = jobCalls
            /\ pc' \in {"loop", "delay", "exited"}
            /\ (outputWrites' = outputWrites /\ pc' # "exited" =>
                  jobState' = Append(jobState, [index |-> idx, state |-> "FAILED"])) ]_vars

C7_Witness ==
  /\ ImageRunner /\ pc \in {"loop", "delay"}
  /\ fallbackUsed /\ jobCalls = 2 /\ lastError = "e404"
  /\ Len(jobState) > 0 /\ jobState[Len(jobState)].state = "FAILED"
  /\ jobState[Len(jobState)].index = Len(jobState)

\* C8: the fallback call is issued only after a recoverable (404) failure
\* of the primary call; any other primary error fails the job at once.
C8_NoFallbackOnNonRecoverable ==
  (ImageRunner /\ fallbackUsed) => lastError = "e404"

\* C9: distinct (subject, target) pairs of a catalog have distinct output
\* paths.
C9_InjectiveOutputPaths ==
  pc = "built" =>
    \A i, j \in 1..Len(jobs) :
      IF script = "showcase"
      THEN (jobs[i].category # jobs[j].category \/ jobs[i].pair # jobs[j].pair)
             => jobs[i].outputPath # jobs[j].outputPath
      ELSE (jobs[i].template # jobs[j].template \/ jobs[i].language # jobs[j].language)
             => jobs[i].outputPath # jobs[j].outputPath

\* C10 (as stated): no two jobs of one catalog share an identifier,
\* whatever --max-jobs is.
C10_UniqueIdentifiers ==
  pc = "built" =>
    \A i, j \in 1..Len(jobs) : i # j => JobId(jobs[i]) # JobId(jobs[j])

\* C10 (amended): with the built-in category and pair lists the showcase
\* builder repeats an identifier exactly at positions a multiple of
\* categories x pairs apart, so its identifiers are pairwise distinct
\* exactly when the catalog is no longer than categories x pairs; the
\* marketing builder never repeats an identifier.
C10_UniqueUpToProduct ==
  pc = "built" =>
    \A i, j \in 1..Len(jobs) :
      i < j =>
        ( JobId(jobs[i]) = JobId(jobs[j])
            <=> (script = "showcase" /\ (j - i) % BuiltinProduct = 0) )

C10_Witness ==
  /\ pc = "built" /\ script = "showcase"
  /\ Len(jobs) = BuiltinProduct + 1
  /\ JobId(jobs[1]) = JobId(jobs[BuiltinProduct + 1])
  /\ \A i, j \in 1..BuiltinProduct : i # j => JobId(jobs[i]) # JobId(jobs[j])

\* C11: the manifest persisted at the end of a run holds at most one entry
\* per job identifier.
C11_OneEntryPerIdentifier ==
  (ImageRunner /\ fileWrites.manifest > 0) =>
    \A i, j \in 1..Len(manifestFile.items) :
      i # j => manifestFile.items[i].id # manifestFile.items[j].id

\* the user named a subset with an allow-list option and nothing matched it
FilterYieldsNothing ==
  CASE script = "marketing" ->
         /\ Len(options.templates) > 0 \/ Len(options.languages) > 0
         /\ Len(buildJobsMarketing(options)) = 0
    [] script = "illustration" ->
         /\ Len(options.only) > 0 \/ options.category # ""
         /\ Len(objectsToGenerate(options)) = 0
    [] script = "translations" ->
         /\ Len(options.trLanguages) > 0
         /\ Len(targetLanguages(options)) = 0
    [] OTHER -> FALSE

\* C12: when an allow-list filter yields zero jobs the script exits with a
\* non-zero status before the job loop, without a call or a write.
C12_EmptyFilterFailsLoudly ==
  (FilterYieldsNothing /\ pc # "init") =>
    /\ pc = "exited" /\ exitCode \notin {-1, 0}
    /\ apiCalls = 0 /\ jobState = <<>>
    /\ outputWrites = <<>> /\ fileWrites = NoWrites

\* C13: a non-dry run without the API credential ends with a non-zero exit
\* status before any job executes: no call to the API, no output file and
\* no manifest, log or translations file is written.
C13_MissingCredentialIsFatal ==
  (~env.apiKey /\ ~options.dryRun /\ pc # "init") =>
    /\ pc = "exited" /\ exitCode \notin {-1, 0}
    /\ apiCalls = 0 /\ listCalls = 0 /\ jobState = <<>>
    /\ outputWrites = <<>> /\ fileWrites = NoWrites

C13_Witness ==
  /\ ImageRunner /\ ~env.apiKey /\ env.refsPresent /\ ~options.dryRun
  /\ Len(jobs) = 2 /\ pc = "exited" /\ exitCode = 1 /\ apiCalls = 0

\* C14: once the write of an output file, the manifest, the log or the
\* translations file has thrown, the run is over with a non-zero exit
\* status; the error is not recorded as a job failure with the loop going on.
C14_PersistenceErrorIsFatal ==
  writeError # "none" => (pc = "exited" /\ exitCode \notin {-1, 0})

\* C15: a call that resolves without an error but with a missing or empty
\* payload ends the job FAILED: no output file is written, no manifest entry
\* is recorded and the failure counter goes up by one.
C15_EmptyPayloadFailsJob ==
  [][ (ImageRunner /\ pc \in {"primary", "fallback"}
         /\ response' \in {"missing", "blank"})
      => /\ jobState' = Append(jobState, [index |-> idx, state |-> "FAILED"])
         /\ disk' = disk /\ outputWrites' = outputWrites
         /\ items' = items
         /\ FailureCount' = FailureCount + 1 ]_vars

\* C16: a generation call that rejects never ends the run: the step in
\* which it resolves either issues the fallback call or records the job as
\* FAILED and leaves the executor in its loop.
C16_ApiErrorsStayInJob ==
  [][ (pc \in {"primary", "fallback", "trcall"} /\ response' \in Errors)
      => /\ pc' # "exited" /\ exitCode' = exitCode
         /\ \/ pc = "primary" /\ pc' = "fallback"
            \/ /\ jobState' = Append(jobState, [index |-> idx, state |-> "FAILED"])
               /\ pc' \in {"loop", "delay", "trloop"} ]_vars

C18_OneCallAtATime ==
  /\ [](inFlight \in {0, 1})
  /\ [][ (apiCalls' = apiCalls + 1)
         => /\ jobCalls' = 1 => (inFlight = 0 /\ Len(jobState) = idx - 1)
            /\ jobCalls' = 2 => (inFlight = 1 /\ response' \in Errors)
            /\ inFlight' = 1 ]_vars
  /\ [][ (idx' = idx + 1) => (inFlight' = 0 /\ Len(jobState') = idx) ]_vars

C18_Witness ==
  /\ ImageRunner /\ pc = "primary" /\ idx = 2 /\ inFlight = 1
  /\ apiCalls = 3 /\ jobCalls = 1 /\ Len(jobState) = 1

\* C19: while the call of job i+1 is outstanding, a delay has elapsed after
\* each of the i jobs before it.
C19_DelayBetweenJobs ==
  (ImageRunner /\ inFlight = 1) => delays >= idx - 1

\* C20: the manifest file is written at most once in a run, in the step
\* that follows the terminal state of the last job, and a run that reaches
\* its summary has written it once; at every earlier point of the run the
\* manifest file is as the run found it, whatever output files exist.
C20_ManifestWrittenOnceAtEnd ==
  /\ [](ImageRunner =>
          /\ fileWrites.manifest \in {0, 1}
          /\ fileWrites.manifest = 1 <=> pc = "done"
          /\ pc = "done" => manifestFile = [exists |-> TRUE, items |-> items])
  /\ [][ (ImageRunner /\ runNo' = runNo
            /\ (manifestFile' # manifestFile
                  \/ fileWrites'.manifest # fileWrites.manifest))
         => /\ pc = "loop" /\ idx = Len(jobs) + 1
            /\ Len(jobState) = Len(jobs)
            /\ pc' = "done"
            /\ fileWrites'.manifest = 1 ]_vars

C20_Witness ==
  /\ ImageRunner /\ runNo = 2 /\ firstRun.pc = "done"
  /\ pc = "primary" /\ idx = 2 /\ Len(outputWrites) = 1
  /\ fileWrites.manifest = 0
  /\ manifestFile = [exists |-> TRUE, items |-> firstRun.items]
  /\ items # firstRun.items

\* C21: a run with --dry-run ends with exit status 0, whatever the catalog,
\* the local reference files and the credential are.
C21_DryRunExitsZero ==
  (options.dryRun /\ pc \in {"done", "exited"}) => exitCode = 0

(***************************************************************************)
(* The prompt library (illustration-prompts.js) and the cost estimators    *)
(* of the three image generators.  They are pure functions: a call is      *)
(* studied by drawing its argument in the initial state and applying       *)
(* the function in one step.  Amounts of money are in cents, so that       *)
(* the per-image rates 0.02, 0.04, ... are the integers 2, 4, ...          *)
(***************************************************************************)
\* largest job count an estimate is asked for
MaxCount == 12
\* longest object prompt tried by buildPrompt
MaxPrompt == 2

generatorVars ==
  << script, options, env, jobs, pc, idx, items, failures, runLog, model,
     disk, outputWrites, manifestFile, logFile, words, translationsFile,
     fileWrites, apiCalls, jobCalls, fallbackUsed, lastError, listCalls,
     jobState, exitCode, runNo, firstRun, inFlight, response, writeError,
     delays >>

\* variant: a fixed fee of one cent is added to the expected amount
estimateCostWithFee(count) ==
  [ estimated |-> count * 4 + 1, min |-> count * 2, max |-> count * 5,
    count |-> count ]

\* illustration generator
estimateCost(count) ==
  [ estimated |-> count * 4, min |-> count * 2, max |-> count * 5,
    count |-> count ]

\* marketing generator
estimateCostMarketing(jobCount) ==
  [ min |-> jobCount * 4, estimated |-> jobCount * 8, max |-> jobCount * 14 ]

\* showcase generator
estimateCostShowcase(jobCount) ==
  [ min |-> jobCount * 3, estimated |-> jobCount * 5, max |-> jobCount * 8 ]

Estimators == {"estimateCost", "estimateCostMarketing", "estimateCostShowcase"}

Estimate(fn, n) ==
  CASE fn = "estimateCost" -> estimateCost(n)
    [] fn = "estimateCostMarketing" -> estimateCostMarketing(n)
    [] fn = "estimateCostShowcase" -> estimateCostShowcase(n)

\* an estimator is applied to the job count it was called with
EstimateCost ==
  /\ call.state = "called" /\ call.fn \in Estimators
  /\ call' = [ call EXCEPT !.state = "returned",
                           !.result = Estimate(call.fn, call.arg) ]
  /\ UNCHANGED << generatorVars, serverVars >>

\* the text of STYLE_GUIDE after .trim(): its lines and the line breaks
\* between them
STYLE_GUIDE ==
  << "Flat vector illustration style.", "\n",
     "Soft rounded shapes with smooth curves.", "\n",
     "Simple geometry, minimal detail.", "\n",
     "Bright but gentle colors (pastel-leaning, nothing harsh).", "\n",
     "No harsh contrast or sharp edges.", "\n",
     "Friendly, neutral, non-scary aesthetic suitable for toddlers.", "\n",
     "High clarity at small sizes (32px-64px must be recognizable).", "\n",
     "No text, letters, numbers, or symbols anywhere in the illustration.", "\n",
     "No scenery, backgrounds, or environmental context.", "\n",
     "No ground line, floor shadows, or drop shadows.", "\n",
     "No strokes or outlines around shapes.", "\n",
     "Minimal shading - flat colors preferred, subtle gradients allowed sparingly.", "\n",
     "Rounded corners on all applicable shapes.", "\n",
     "Single isolated object centered on a pure white or transparent background.", "\n",
     "Style similar to modern educational apps for young children." >>

endsWith(s, suffix) ==
  Len(suffix) <= Len(s) /\ SubSeq(s, Len(s) - Len(suffix) + 1, Len(s)) = suffix

\* variant: an object without a description gets no prompt at all
buildPromptSkipsEmpty(object) ==
  IF object.prompt = <<>> THEN <<>>
  ELSE object.prompt \o <<".", " ">> \o STYLE_GUIDE

\* `${object.prompt}. ${STYLE_GUIDE}`
buildPrompt(object) == object.prompt \o <<".", " ">> \o STYLE_GUIDE

BuildPrompt ==
  /\ call.state = "called" /\ call.fn = "buildPrompt"
  /\ call' = [ call EXCEPT !.state = "returned", !.result = buildPrompt(call.arg) ]
  /\ UNCHANGED << generatorVars, serverVars >>

\* what Array.prototype.find returns when no element matches
Undefined == [ undefined |-> TRUE ]

\* variant: an unknown id yields the first object
getObjectByIdOrFirst(id) ==
  LET hits == { i \in 1..Len(OBJECTS) : OBJECTS[i].id = id }
  IN  IF hits = {} THEN OBJECTS[1]
      ELSE OBJECTS[CHOOSE i \in hits : \A j \in hits : i <= j]

\* OBJECTS.find(obj => obj.id === id)
getObjectById(id) ==
  LET hits == { i \in 1..Len(OBJECTS) : OBJECTS[i].id = id }
  IN  IF hits = {} THEN Undefined
      ELSE OBJECTS[CHOOSE i \in hits : \A j \in hits : i <= j]

GetObjectById ==
  /\ call.state = "called" /\ call.fn = "getObjectById"
  /\ call' = [ call EXCEPT !.state = "returned", !.result = getObjectById(call.arg) ]
  /\ UNCHANGED << generatorVars, serverVars >>

(***************************************************************************)
(* Arguments the library is called with.                                   *)
(***************************************************************************)
PromptChars == {"a", ".", " "}

RECURSIVE PromptsOfLen(_)
PromptsOfLen(n) ==
  IF n = 0 THEN { <<>> }
  ELSE { <<c>> \o s : c \in PromptChars, s \in PromptsOfLen(n - 1) }

\* object descriptions, the empty one included
Prompts == UNION { PromptsOfLen(n) : n \in 0..MaxPrompt }

\* the ids of OBJECTS and ids that no object has
LookupIds ==
  { OBJECTS[i].id : i \in 1..Len(OBJECTS) } \cup {"nonexistent-id", "", "Cat", "cat "}

LibraryCall(c) ==
  \/ \E fn \in Estimators, n \in 0..MaxCount :
       c = [ fn |-> fn, arg |-> n, state |-> "called", result |-> <<>> ]
  \/ \E p \in Prompts, o \in Range(OBJECTS) :
       /\ o.id \in {"cat", "dog"}
       /\ c = [ fn |-> "buildPrompt",
                arg |-> [ id |-> o.id, prompt |-> p, category |-> o.category ],
                state |-> "called", result |-> <<>> ]
  \/ \E id \in LookupIds :
       c = [ fn |-> "getObjectById", arg |-> id, state |-> "called", result |-> <<>> ]

InitLibrary ==
  /\ script = "illustration" /\ options = DefaultOptions
  /\ GeneratorIdle /\ ServerIdle
  /\ LibraryCall(call)

NextLibrary == EstimateCost \/ BuildPrompt \/ GetObjectById

SpecLibrary == InitLibrary /\ [][NextLibrary]_vars

Returned(fn) == call.state = "returned" /\ call.fn = fn

\* C22: every estimator is linear in the job count: the estimate for 2n jobs is twice the estimate for n jobs, in its expected, lowest and highest amounts.
C22_EstimateIsLinear ==
  (call.state = "returned" /\ call.fn \in Estimators) =>
    LET twice == Estimate(call.fn, 2 * call.arg)
    IN  /\ twice.estimated = 2 * call.result.estimated
        /\ twice.min = 2 * call.result.min
        /\ twice.max = 2 * call.result.max

C22_Witness ==
  /\ Returned("estimateCost") /\ call.arg = MaxCount
  /\ call.result.estimated = 4 * MaxCount /\ call.result.count = MaxCount

(***************************************************************************)
(* The showcase builder on a catalog of three different categories and     *)
(* two different pairs, given with --categories and --pairs, and           *)
(* --max-jobs from 1 to beyond the six combinations.                       *)
(***************************************************************************)
ThreeCategories ==
  { << CATEGORIES[a], CATEGORIES[b], CATEGORIES[c] >> :
      a \in 1..Len(CATEGORIES), b \in 1..Len(CATEGORIES), c \in 1..Len(CATEGORIES) }

TwoPairs ==
  { << DEFAULT_LANGUAGE_PAIRS[a], DEFAULT_LANGUAGE_PAIRS[b] >> :
      a \in 1..Len(DEFAULT_LANGUAGE_PAIRS), b \in 1..Len(DEFAULT_LANGUAGE_PAIRS) }

Distinct(list) == \A i, j \in 1..Len(list) : i # j => list[i] # list[j]

ThreeByTwoOptions(o) ==
  \E c \in ThreeCategories, p \in TwoPairs, n \in 1..(6 + MaxWrap) :
    /\ Distinct(c) /\ Distinct(p)
    /\ c[1] = CATEGORIES[1] /\ p[1] = DEFAULT_LANGUAGE_PAIRS[1]
    /\ o = [DefaultOptions EXCEPT !.categories = c, !.pairs = p,
                                  !.maxJobs = NumJobs(n)]

InitThreeByTwo ==
  /\ script = "showcase" /\ ThreeByTwoOptions(options)
  /\ IdleState

NextThreeByTwo == BuildShowcase

SpecThreeByTwo == InitThreeByTwo /\ [][NextThreeByTwo]_vars

\* two jobs of the catalog have the same category and the same pair
RepeatsCombination(catalog) ==
  \E i, j \in 1..Len(catalog) :
    i < j /\ catalog[i].category = catalog[j].category
          /\ catalog[i].pair = catalog[j].pair

\* C23 (as stated): three categories, two pairs and --max-jobs=4 give
\* exactly 4 jobs, one of which repeats the (category, pair) combination
\* of an earlier job.
C23_FourJobsWithRepeat ==
  (pc = "built" /\ options.maxJobs = NumJobs(4)) =>
    Len(jobs) = 4 /\ RepeatsCombination(jobs)

\* C23 (amended): three categories, two pairs and --max-jobs=4 give exactly
\* 4 jobs with four different (category, pair) combinations: the three
\* categories with the first pair, then the first category with the second
\* pair.
C23_FourJobsNoRepeat ==
  (pc = "built" /\ options.maxJobs = NumJobs(4)) =>
    /\ Len(jobs) = 4 /\ ~RepeatsCombination(jobs)
    /\ \A i \in 1..3 : jobs[i].category = options.categories[i]
                       /\ jobs[i].pair = options.pairs[1]
    /\ jobs[4].category = options.categories[1]
    /\ jobs[4].pair = options.pairs[2]

C23_Witness ==
  /\ pc = "built" /\ options.maxJobs = NumJobs(4)
  /\ Len(options.categories) = 3 /\ Len(options.pairs) = 2
  /\ Len(jobs) = 4 /\ jobs[4].pair # jobs[1].pair

\* C24: buildPrompt returns a non-empty text that begins with the object's
\* prompt and ends with STYLE_GUIDE, unaltered; it returns such a text for
\* an empty prompt too, and evaluating it again on the same object gives
\* the same text.
C24_BuildPromptShape ==
  Returned("buildPrompt") =>
    /\ Len(call.result) > 0
    /\ startsWith(call.result, call.arg.prompt)
    /\ endsWith(call.result, STYLE_GUIDE)
    /\ call.result = buildPrompt(call.arg)

C24_Witness ==
  /\ Returned("buildPrompt") /\ call.arg.prompt = <<>>
  /\ call.result = <<".", " ">> \o STYLE_GUIDE

\* C25: no two entries of OBJECTS have the same id, and getObjectById
\* returns the entry with the given id when there is one and undefined
\* when there is none.
C25_LookupById ==
  /\ \A i, j \in 1..Len(OBJECTS) : i # j => OBJECTS[i].id # OBJECTS[j].id
  /\ Returned("getObjectById") =>
       IF \E o \in Range(OBJECTS) : o.id = call.arg
       THEN call.result \in Range(OBJECTS) /\ call.result.id = call.arg
       ELSE call.result = Undefined

C25_Witness ==
  /\ Returned("getObjectById") /\ call.arg = OBJECTS[Len(OBJECTS)].id
  /\ call.result = OBJECTS[Len(OBJECTS)]

\* C26: the illustration generator writes its run log once per run, after
\* the last job: the write appends the record of this run, with one entry
\* per selected object, to the records the file held and leaves those
\* unchanged.  No other script, no dry run and no run that ends on a
\* configuration error changes the log.
C26_RunLogAppendedOnce ==
  /\ []((script = "illustration" /\ pc = "done") => fileWrites.log = 1)
  /\ [][ (runNo' = runNo
          /\ (logFile' # logFile \/ fileWrites'.log # fileWrites.log)) =>
           /\ script = "illustration" /\ ~options.dryRun
           /\ pc = "loop" /\ idx > Len(jobs) /\ Len(jobState) = Len(jobs)
           /\ Len(jobs) > 0
           /\ fileWrites.log = 0 /\ fileWrites'.log = 1
           /\ logFile'.exists
           /\ logFile'.runs = Append(logFile.runs, runLog)
           /\ Len(runLog.objects) = Len(jobs) ]_vars
  /\ [][ runNo' # runNo => logFile' = logFile ]_vars

C26_Witness ==
  /\ script = "illustration" /\ runNo = 2 /\ pc = "done"
  /\ firstRun.pc = "done"
  /\ Len(logFile.runs) = 2 /\ logFile.runs[2] = runLog
  /\ Len(logFile.runs[1].objects) = Len(firstRun.jobState)

(***************************************************************************)
(* The dev-server wrapper (dev-server.mjs start | stop | restart |         *)
(* status).  Two commands run as separate processes; a step of a command   *)
(* is a stretch of its code between two points where the other command,    *)
(* the server or the operating system can act.  A process of the table     *)
(* is "dead", a "server" (its command line is astro dev) or an "other"     *)
(* process.  readPid's null is the pid 0.                                  *)
(***************************************************************************)
DEFAULT_PORT == 4321

\* liveness polls of stopServer before it forces the stop
STOP_POLLS == 20

Commands == {"start", "stop", "restart", "status"}

NewCommand(command) ==
  [ command |-> command,
    phase |-> IF command \in {"stop", "restart"} THEN "stop" ELSE command,
    pc |-> IF command = "status" THEN "status" ELSE "cleanup",
    pid |-> 0, child |-> 0, polls |-> 0, exit |-> -1 ]

readPid == IF pidFile.exists THEN pidFile.pid ELSE 0

isRunning(pid) == pid # 0 /\ procs[pid] # "dead"

ensureExpectedProcess(pid) == procs[pid] = "server"

removeStateFiles == pidFile' = NoPidFile /\ metaFile' = NoMetaFile

keepStateFiles == UNCHANGED << pidFile, metaFile >>

Goto(c, label) == cmd' = [cmd EXCEPT ![c].pc = label]

ProcessExit(c, code) == cmd' = [cmd EXCEPT ![c].pc = "done", ![c].exit = code]

\* stopServer returns: restart goes on with startServer
StopReturns(c) ==
  IF cmd[c].command = "restart"
  THEN cmd' = [cmd EXCEPT ![c].phase = "start", ![c].pc = "cleanup"]
  ELSE ProcessExit(c, 0)

ServerFrame == UNCHANGED << generatorVars, libVars >>

cleanupStaleState(c) ==
  /\ cmd[c].pc = "cleanup"
  /\ IF readPid # 0 /\ ~isRunning(readPid)
     THEN removeStateFiles ELSE keepStateFiles
  /\ Goto(c, "check")
  /\ UNCHANGED << procs, spawned, signals >> /\ ServerFrame

\* variant: start spawns a server whatever the PID file names
StartCheckAlwaysSpawns(c) ==
  /\ cmd[c].phase = "start" /\ cmd[c].pc = "check"
  /\ Goto(c, "spawn")
  /\ UNCHANGED << pidFile, metaFile, procs, spawned, signals >> /\ ServerFrame

\* startServer: the already-running branch
StartCheck(c) ==
  /\ cmd[c].phase = "start" /\ cmd[c].pc = "check"
  /\ IF isRunning(readPid) THEN ProcessExit(c, 0) ELSE Goto(c, "spawn")
  /\ UNCHANGED << pidFile, metaFile, procs, spawned, signals >> /\ ServerFrame

\* spawn(process.execPath, [ASTRO_BIN, 'dev', ...]): the operating system
\* gives the child a pid that no live process has
StartSpawn(c) ==
  /\ cmd[c].phase = "start" /\ cmd[c].pc = "spawn"
  /\ \E p \in Pids :
       /\ procs[p] = "dead"
       /\ procs' = [procs EXCEPT ![p] = "server"]
       /\ spawned' = Append(spawned, p)
       /\ cmd' = [cmd EXCEPT ![c].child = p, ![c].pc = "writePid"]
  /\ UNCHANGED << pidFile, metaFile, signals >> /\ ServerFrame

StartWritePid(c) ==
  /\ cmd[c].phase = "start" /\ cmd[c].pc = "writePid"
  /\ pidFile' = [exists |-> TRUE, pid |-> cmd[c].child]
  /\ Goto(c, "writeMeta")
  /\ UNCHANGED << metaFile, procs, spawned, signals >> /\ ServerFrame

StartWriteMeta(c) ==
  /\ cmd[c].phase = "start" /\ cmd[c].pc = "writeMeta"
  /\ metaFile' = [exists |-> TRUE, port |-> DEFAULT_PORT]
  /\ Goto(c, "verify")
  /\ UNCHANGED << pidFile, procs, spawned, signals >> /\ ServerFrame

\* after sleep(2000)
StartVerify(c) ==
  /\ cmd[c].phase = "start" /\ cmd[c].pc = "verify"
  /\ IF ~isRunning(cmd[c].child)
     THEN removeStateFiles /\ ProcessExit(c, 1)
     ELSE keepStateFiles /\ ProcessExit(c, 0)
  /\ UNCHANGED << procs, spawned, signals >> /\ ServerFrame

\* variant: stop signals whatever live process the PID file names
StopCheckTrustsPidFile(c) ==
  /\ cmd[c].phase = "stop" /\ cmd[c].pc = "check"
  /\ IF ~isRunning(readPid) THEN StopReturns(c)
     ELSE cmd' = [cmd EXCEPT ![c].pid = readPid, ![c].pc = "term"]
  /\ UNCHANGED << pidFile, metaFile, procs, spawned, signals >> /\ ServerFrame

\* stopServer: the not-running return and the refusal
StopCheck(c) ==
  /\ cmd[c].phase = "stop" /\ cmd[c].pc = "check"
  /\ IF ~isRunning(readPid) THEN StopReturns(c)
     ELSE IF ~ensureExpectedProcess(readPid) THEN ProcessExit(c, 1)
     ELSE cmd' = [cmd EXCEPT ![c].pid = readPid, ![c].pc = "term"]
  /\ UNCHANGED << pidFile, metaFile, procs, spawned, signals >> /\ ServerFrame

\* sendSignal(pid, 'SIGTERM'); it throws when no process has the pid
StopTerm(c) ==
  /\ cmd[c].phase = "stop" /\ cmd[c].pc = "term"
  /\ IF procs[cmd[c].pid] = "dead"
     THEN removeStateFiles /\ StopReturns(c) /\ signals' = signals
     ELSE /\ signals' = Append(signals, [pid |-> cmd[c].pid, signal |-> "SIGTERM"])
          /\ cmd' = [cmd EXCEPT ![c].polls = 0, ![c].pc = "poll"]
          /\ keepStateFiles
  /\ UNCHANGED << procs, spawned >> /\ ServerFrame

\* one round of the polling loop
StopPoll(c) ==
  /\ cmd[c].phase = "stop" /\ cmd[c].pc = "poll" /\ cmd[c].polls < STOP_POLLS
  /\ IF ~isRunning(cmd[c].pid)
     THEN removeStateFiles /\ StopReturns(c)
     ELSE keepStateFiles /\ cmd' = [cmd EXCEPT ![c].polls = @ + 1]
  /\ UNCHANGED << procs, spawned, signals >> /\ ServerFrame

\* sendSignal(pid, 'SIGKILL') after the last poll
StopKill(c) ==
  /\ cmd[c].phase = "stop" /\ cmd[c].pc = "poll" /\ cmd[c].polls = STOP_POLLS
  /\ IF procs[cmd[c].pid] = "dead"
     THEN UNCHANGED << procs, signals >>
     ELSE /\ signals' = Append(signals, [pid |-> cmd[c].pid, signal |-> "SIGKILL"])
          /\ procs' = [procs EXCEPT ![cmd[c].pid] = "dead"]
  /\ removeStateFiles
  /\ StopReturns(c)
  /\ UNCHANGED spawned /\ ServerFrame

showStatus(c) ==
  /\ cmd[c].pc = "status"
  /\ IF readPid # 0 /\ ~(isRunning(readPid) /\ ensureExpectedProcess(readPid))
     THEN removeStateFiles ELSE keepStateFiles
  /\ ProcessExit(c, 0)
  /\ UNCHANGED << procs, spawned, signals >> /\ ServerFrame

\* a live process ends: the server crashes or obeys SIGTERM
ProcessEnds(p) ==
  /\ procs[p] # "dead"
  /\ procs' = [procs EXCEPT ![p] = "dead"]
  /\ UNCHANGED << pidFile, metaFile, cmd, spawned, signals >> /\ ServerFrame

\* the operating system gives the pid that the PID file names, free by
\* now, to an unrelated process
OtherProcessStarts(p) ==
  /\ procs[p] = "dead" /\ p = readPid
  /\ procs' = [procs EXCEPT ![p] = "other"]
  /\ UNCHANGED << pidFile, metaFile, cmd, spawned, signals >> /\ ServerFrame

InitServer ==
  /\ script = "dev-server" /\ options = DefaultOptions /\ GeneratorIdle
  /\ call = NoCall
  /\ pidFile \in {NoPidFile} \cup { [exists |-> TRUE, pid |-> p] : p \in 0..1 }
  /\ metaFile = IF pidFile.exists THEN [exists |-> TRUE, port |-> DEFAULT_PORT]
                ELSE NoMetaFile
  /\ \E kind \in {"dead", "server", "other"} :
       procs = [ p \in Pids |-> IF p = 1 THEN kind ELSE "dead" ]
  /\ \E a, b \in Commands : cmd = << NewCommand(a), NewCommand(b) >>
  /\ spawned = <<>> /\ signals = <<>>

NextServer ==
  \/ \E c \in 1..Len(cmd) : cleanupStaleState(c)
  \/ \E c \in 1..Len(cmd) : StartCheck(c)
  \/ \E c \in 1..Len(cmd) : StartSpawn(c)
  \/ \E c \in 1..Len(cmd) : StartWritePid(c)
  \/ \E c \in 1..Len(cmd) : StartWriteMeta(c)
  \/ \E c \in 1..Len(cmd) : StartVerify(c)
  \/ \E c \in 1..Len(cmd) : StopCheck(c)
  \/ \E c \in 1..Len(cmd) : StopTerm(c)
  \/ \E c \in 1..Len(cmd) : StopPoll(c)
  \/ \E c \in 1..Len(cmd) : StopKill(c)
  \/ \E c \in 1..Len(cmd) : showStatus(c)
  \/ \E p \in Pids : ProcessEnds(p)
  \/ \E p \in Pids : OtherProcessStarts(p)

SpecServer == InitServer /\ [][NextServer]_vars

\* C27: a start command that finds the PID file naming a live process
\* ends there with status 0: it spawns nothing and leaves the PID file,
\* the meta file and every process as they are.
C27_StartIsSingleInstance ==
  [][ \A c \in 1..Len(cmd) :
        ( /\ cmd[c].phase = "start" /\ cmd[c].pc = "check"
          /\ isRunning(readPid)
          /\ cmd'[c] # cmd[c] ) =>
            /\ cmd'[c].pc = "done" /\ cmd'[c].exit = 0 /\ cmd'[c].child = 0
            /\ UNCHANGED << pidFile, metaFile, procs, spawned, signals >> ]_vars

C27_Witness ==
  \E c \in 1..Len(cmd) :
    /\ cmd[c].command = "start" /\ cmd[c].pc = "done" /\ cmd[c].exit = 0
    /\ cmd[c].child = 0 /\ spawned = <<>>
    /\ pidFile.exists /\ isRunning(pidFile.pid) /\ metaFile.exists

\* the lists the showcase builder cycles through
SelectedCategories ==
  IF Len(options.categories) > 0 THEN options.categories ELSE CATEGORIES

SelectedPairs ==
  IF Len(options.pairs) > 0 THEN options.pairs ELSE DEFAULT_LANGUAGE_PAIRS

\* the showcase builder was given a positive integer --max-jobs
ShowcaseBuiltFor(n) ==
  /\ script = "showcase" /\ pc = "built"
  /\ n >= 1 /\ options.maxJobs = NumJobs(n)

\* job i (0-based) has category[i mod C] and pair[floor(i / C) mod P]
ModularRule ==
  \A i \in 0..(Len(jobs) - 1) :
    /\ jobs[i + 1].category = SelectedCategories[(i % Len(SelectedCategories)) + 1]
    /\ jobs[i + 1].pair =
         SelectedPairs[((i \div Len(SelectedCategories)) % Len(SelectedPairs)) + 1]

\* C28 (as stated): for a positive integer --max-jobs N the showcase
\* builder returns exactly N jobs, job i having category[i mod C] and
\* pair[floor(i / C) mod P], and some (category, pair) combination occurs
\* twice exactly when N > C * P.
C28_ModularExpansion ==
  \A n \in 1..(BuiltinProduct + MaxWrap + 1) :
    ShowcaseBuiltFor(n) =>
      /\ Len(jobs) = n /\ ModularRule
      /\ RepeatsCombination(jobs)
           <=> n > Len(SelectedCategories) * Len(SelectedPairs)

\* C28 (amended): for a positive integer --max-jobs N the showcase builder
\* returns exactly N jobs, job i having category[i mod C] and
\* pair[floor(i / C) mod P]; some combination occurs twice whenever
\* N > C * P, and when no entry occurs twice in the category list or in
\* the pair list, only then.
C28_ModularExpansionOfDistinctLists ==
  \A n \in 1..(BuiltinProduct + MaxWrap + 1) :
    ShowcaseBuiltFor(n) =>
      /\ Len(jobs) = n /\ ModularRule
      /\ n > Len(SelectedCategories) * Len(SelectedPairs)
           => RepeatsCombination(jobs)
      /\ (Distinct(SelectedCategories) /\ Distinct(SelectedPairs)
            /\ RepeatsCombination(jobs))
           => n > Len(SelectedCategories) * Len(SelectedPairs)

C28_Witness ==
  /\ ShowcaseBuiltFor(3)
  /\ Len(options.pairs) = 2 /\ Distinct(options.pairs)
  /\ Len(jobs) = 3
  /\ jobs[2].pair # jobs[1].pair
  /\ jobs[3].pair = jobs[1].pair /\ jobs[3].category = jobs[1].category

\* C29: when the primary call of an illustration job settles, the fallback
\* model is called exactly if the call failed with status 404 and the
\* model is gpt-image-1.5 or one of its dated versions; after any other
\* failure the job is FAILED with its one call; no job makes more than two
\* calls.
C29_FallbackOnlyAfter404 ==
  /\ [](script = "illustration" =>
          /\ jobCalls <= 2
          /\ fallbackUsed => (lastError = "e404" /\ isGptImage15(model)))
  /\ [][ (script = "illustration" /\ pc = "primary") =>
           /\ (pc' = "fallback")
                <=> (response' = "e404" /\ isGptImage15(model))
           /\ pc' = "fallback" =>
                (jobCalls' = 2 /\ apiCalls' = apiCalls + 1 /\ jobState' = jobState)
           /\ (pc' # "fallback" /\ ~HasPayload(response')) =>
                /\ jobState' = Append(jobState, [index |-> idx, state |-> "FAILED"])
                /\ jobCalls = 1 /\ jobCalls' = 1 /\ apiCalls' = apiCalls
                /\ ~fallbackUsed' ]_vars

C29_Witness ==
  /\ script = "illustration" /\ pc = "fallback"
  /\ model # DEFAULT_MODEL /\ isGptImage15(model)
  /\ response = "e404" /\ lastError = "e404"
  /\ jobCalls = 2 /\ fallbackUsed /\ inFlight = 1

NotFailed(entry) == entry.state # "FAILED"

\* the jobs of this run that were skipped or succeeded, in catalog order
KeptJobs == SelectSeq(jobState, NotFailed)

\* C30: the manifest written by a marketing or showcase run holds one item
\* for each job of this run that was skipped or succeeded, in catalog
\* order, and nothing else: items the file held before are gone.  The
\* manifest written by the illustration generator still holds every entry
\* the file held for an object that this run did not select.
C30_ManifestOverwrittenOrMerged ==
  [][ (runNo' = runNo /\ fileWrites'.manifest # fileWrites.manifest) =>
        IF SkipRunner
        THEN /\ Len(jobState) = Len(jobs)
             /\ Len(manifestFile'.items) = Len(KeptJobs)
             /\ \A k \in 1..Len(KeptJobs) :
                  /\ manifestFile'.items[k].id = JobId(jobs[KeptJobs[k].index])
                  /\ manifestFile'.items[k].imagePath
                       = ImagePath(jobs[KeptJobs[k].index])
        ELSE \A i \in 1..Len(manifestFile.items) :
               (\A j \in 1..Len(jobs) : jobs[j].id # manifestFile.items[i].id)
                 => \E k \in 1..Len(manifestFile'.items) :
                      manifestFile'.items[k] = manifestFile.items[i] ]_vars

C30_Witness ==
  /\ SkipRunner /\ runNo = 1 /\ pc = "done"
  /\ disk # {} /\ Len(jobs) = 2
  /\ jobState = << [index |-> 1, state |-> "FAILED"],
                   [index |-> 2, state |-> "SKIPPED"] >>
  /\ Len(manifestFile.items) = 1
  /\ manifestFile.items[1].id = JobId(jobs[2])
  /\ manifestFile.items[1] # RetiredItem

\* C31: the showcase builder returns at least one job for every
\* --max-jobs value parseArgs can produce: zero, negative numbers and
\* non-numeric text included.
C31_CatalogNeverEmpty ==
  (script = "showcase" /\ pc = "built") => Len(jobs) >= 1

\* C32: with --max-jobs=n, n >= 1, the marketing catalog is the first
\* min(len, n) jobs of the cross product of the selected templates and
\* languages, templates outermost: job k (0-based) has
\* template[floor(k / L)] and language[k mod L], L the number of languages.
C32_CapKeepsPrefix ==
  \A n \in 1..(MaxJobsArg + 1) :
    (script = "marketing" /\ pc = "built" /\ options.maxJobs = NumJobs(n)) =>
      LET templates == selectTemplates(options)
          languages == selectLanguages(options)
      IN  /\ Len(jobs) = Min(Len(templates) * Len(languages), n)
          /\ \A k \in 0..(Len(jobs) - 1) :
               /\ jobs[k + 1].template = templates[(k \div Len(languages)) + 1]
               /\ jobs[k + 1].language = languages[(k % Len(languages)) + 1]

C32_Witness ==
  /\ script = "marketing" /\ pc = "built" /\ options.maxJobs = NumJobs(3)
  /\ Len(selectTemplates(options)) = 2 /\ Len(selectLanguages(options)) = 2
  /\ Len(jobs) = 3
  /\ jobs[1].template = jobs[2].template /\ jobs[1].language # jobs[2].language
  /\ jobs[3].template # jobs[1].template /\ jobs[3].language = jobs[1].language

\* C33: the counters account for every job exactly once.  Marketing and
\* showcase: items recorded plus failures is the number of jobs processed
\* so far, and the catalog length when the run completes.  Illustration
\* generator: in a completed run successCount + failCount, the number of
\* selected objects and the number of per-object records are the same, the
\* k-th record being that of the k-th selected object.
C33_CountersAccountForJobs ==
  /\ SkipRunner =>
       /\ Len(items) + failures = Len(jobState)
       /\ \A k \in 1..Len(jobState) : jobState[k].index = k
       /\ pc = "done" => Len(items) + failures = Len(jobs)
  /\ (script = "illustration" /\ pc = "done") =>
       /\ runLog.successCount + runLog.failCount = Len(jobs)
       /\ Len(runLog.objects) = Len(jobs)
       /\ \A k \in 1..Len(jobs) : runLog.objects[k].id = jobs[k].id
       /\ runLog.successCount
            = Cardinality({ k \in 1..Len(jobs) : runLog.objects[k].success })

C33_Witness ==
  /\ script = "illustration" /\ pc = "done" /\ Len(jobs) = 2
  /\ runLog.successCount = 1 /\ runLog.failCount = 1
  /\ ~runLog.objects[1].success /\ runLog.objects[2].success

\* the step in which command c leaves the check of stopServer
StopChecks(c) ==
  /\ cmd[c].phase = "stop" /\ cmd[c].pc = "check"
  /\ cmd'[c] # cmd[c]

\* C34: when stop finds that the PID file names a live process that is not
\* the dev server, it sends no signal, leaves the PID file and the meta file
\* as they are and exits with status 1; the exited process takes no further
\* step, so a restart does not go on to start.
C34_StopRefusesForeignPid ==
  /\ [][\A c \in 1..Len(cmd) :
          (StopChecks(c) /\ isRunning(readPid) /\ ~ensureExpectedProcess(readPid)) =>
            /\ signals' = signals /\ procs' = procs /\ spawned' = spawned
            /\ pidFile' = pidFile /\ metaFile' = metaFile
            /\ cmd'[c].pc = "done" /\ cmd'[c].exit = 1
            /\ cmd'[c].phase = "stop"]_vars
  /\ [][\A c \in 1..Len(cmd) : cmd[c].pc = "done" => cmd'[c] = cmd[c]]_vars

C34_Witness ==
  /\ cmd[1].command = "restart" /\ cmd[1].pc = "done" /\ cmd[1].exit = 1
  /\ cmd[1].phase = "stop"
  /\ cmd[2].command = "status" /\ cmd[2].pc = "status"
  /\ pidFile = [exists |-> TRUE, pid |-> 1] /\ metaFile.exists
  /\ procs[1] = "other"
  /\ signals = <<>> /\ spawned = <<>>

\* the step in which command c comes back from stopServer without refusing
StopReturnsNormally(c) ==
  /\ cmd[c].phase = "stop" /\ cmd[c].pc # "done"
  /\ \/ cmd'[c].phase = "start"
     \/ cmd'[c].pc = "done" /\ cmd'[c].exit = 0

\* C35: stop polls at most STOP_POLLS times; SIGKILL goes only to a process
\* that got SIGTERM before, from a command that has used up all its polls
\* and still finds the process alive; and when stop returns without
\* refusing, neither the PID file nor the meta file exists.
C35_StopEndsWithoutStateFiles ==
  /\ [](\A c \in 1..Len(cmd) : cmd[c].polls <= STOP_POLLS)
  /\ [](\A k \in 1..Len(signals) :
          signals[k].signal = "SIGKILL" =>
            \E j \in 1..(k - 1) :
              signals[j] = [pid |-> signals[k].pid, signal |-> "SIGTERM"])
  /\ [][\A c \in 1..Len(cmd) :
          (cmd'[c] # cmd[c] /\ Len(signals') > Len(signals)
             /\ signals'[Len(signals')].signal = "SIGKILL") =>
            /\ cmd[c].polls = STOP_POLLS
            /\ isRunning(cmd[c].pid)]_vars
  /\ [][\A c \in 1..Len(cmd) :
          StopReturnsNormally(c) => (~pidFile'.exists /\ ~metaFile'.exists)]_vars

\* both commands are start
TwoStarts == \A c \in 1..Len(cmd) : cmd[c].command = "start"

\* C36: two concurrent start commands spawn at most one dev server, and once
\* both have ended every live server they spawned is the one that the PID
\* file names.
C36_ConcurrentStartsSpawnOnce ==
  TwoStarts =>
    /\ Len(spawned) <= 1
    /\ (\A c \in 1..Len(cmd) : cmd[c].pc = "done") =>
         \A k \in 1..Len(spawned) :
           procs[spawned[k]] = "server" => readPid = spawned[k]

\* the (word, language) entries of the request that a call step sends
Requested ==
  { << w, jobs[idx] >> : w \in Range(entriesToTranslate(options, words, jobs[idx])) }

Targeted(w, l) ==
  /\ w \in Range(targetWordIds(options))
  /\ l \in Range(targetLanguages(options))

LanguageStates == { jobState[k].state : k \in 1..Len(jobState) }

\* C38: when the translation call of a target language throws, the script ends
\* with exit status 1 and word-translations.json is not written, whatever
\* earlier languages have put in memory; the file changes only in a step
\* taken after every target language was translated or skipped.
C38_FailedCallLeavesFile ==
  /\ []((script = "translations" /\ "FAILED" \in LanguageStates) =>
          /\ pc = "exited" /\ exitCode = 1
          /\ fileWrites.translations = 0)
  /\ [][script = "translations" =>
          /\ (pc = "trcall" /\ response' \notin {"ok", response}) =>
               /\ pc' = "exited" /\ exitCode' = 1
               /\ translationsFile' = translationsFile
               /\ "FAILED" \in { jobState'[k].state : k \in 1..Len(jobState') }
          /\ translationsFile' # translationsFile =>
               /\ Len(jobState) = Len(jobs)
               /\ LanguageStates \subseteq {"SUCCEEDED", "SKIPPED"}]_vars

C38_Witness ==
  /\ script = "translations" /\ pc = "exited" /\ exitCode = 1
  /\ Len(jobs) = 2 /\ Len(jobState) = 2
  /\ jobState[1].state = "SUCCEEDED" /\ jobState[2].state = "FAILED"
  /\ words # translationsFile
  /\ fileWrites.translations = 0 /\ ~options.dryRun

====
